---- MODULE Spec2Model ----
(***************************************************************************)
(* A model of AgentRuntime (packages/core/src/runtime.ts): the provider    *)
(* registry and composeState with its per-message state cache, the service *)
(* registry, processActions and evaluate.                                  *)
(*                                                                         *)
(* Every asynchronous method is cut into steps at its suspension points    *)
(* (await); steps of different calls interleave as the single-threaded     *)
(* scheduler allows.                                                       *)
(***************************************************************************)
EXTENDS Integers, Sequences, FiniteSets, TLC

\* Most providers registered on the runtime in one behaviour.
MaxProviders == 3
\* Most composeState calls issued in one behaviour, which may all overlap.
MaxCalls == 2
\* Most composeState calls issued one after the other (each awaited before the
\* next is made, as processActions does).
MaxSeqCalls == 3

VARIABLES
    providers,   \* this.providers: Provider[] in registration order
    stateCache,  \* this.stateCache: message id -> cached state (or NoEntry)
    calls,       \* composeState calls in flight: position and locals of each
    lastCall,    \* the composeState call that returned last, and its result
    nCalls,      \* composeState calls made so far
    services,    \* this.services: Map<ServiceType, Service>, in insertion order
    regs,        \* registerService calls: descriptor and position of each
    actions,     \* this.actions: Action[] in registration order
    pa,          \* the processActions call: arguments, position, outcome
    invoked,     \* action handler invocations, in order, with their outcome
    resolved,    \* requested action names resolved so far, with the result
    evaluators,  \* this.evaluators: Evaluator[] in registration order
    ev,          \* the evaluate call: arguments, position, outcome
    auditLog,    \* entries written through databaseAdapter.log, in order
    store,       \* memories written through createMemory, in order
    kn,          \* the processCharacterKnowledge call: items, position, outcome
    gk,          \* the getKnowledge call: message, position, outcome
    models,      \* this.models: Map<string, handler[]>, in insertion order
    um,          \* the useModel call: type, handler, position, outcome
    modelCalls,  \* the registerModel calls made so far, in order
    plugins,     \* this.plugins: Plugin[]
    routes,      \* this.routes: Route[]
    installs,    \* registerPlugin calls: plugin and position of each
    adapter,     \* this.adapter: the storage adapter bound, or NoAdapter
    supplied,    \* the adapters supplied to the runtime so far, in order
    constructed, \* the constructor ran with options (FALSE: with none)
    events,      \* this.events: Map<string, handler[]>, in insertion order
    emitted,     \* the last emitEvent call: names, handlers invoked, outcome
    eventCalls,  \* the registerEvent calls made so far, in order
    stopping,    \* the stop() call: position and outcome
    character,   \* this.character: secrets, settings, plugins, knowledge
    setting,     \* the setSetting calls made, and the last getSetting call
    boot,        \* the initialize() call: position and outcome
    twitter      \* TwitterService: instance, clients, createClient and stop calls

composeVars == <<providers, stateCache, calls, lastCall, nCalls>>

serviceVars == <<services, regs>>

actionVars == <<actions, pa, invoked, resolved>>

evalVars == <<evaluators, ev>>

knowledgeVars == <<store, kn, gk>>

modelVars == <<models, um, modelCalls>>

pluginVars == <<plugins, routes, installs, adapter, supplied, constructed>>

eventVars == <<events, emitted, eventCalls>>

startVars == <<character, setting, boot, twitter>>

extVars == <<knowledgeVars, modelVars, pluginVars, eventVars, stopping, startVars>>

vars == <<composeVars, serviceVars, actionVars, evalVars, auditLog, extVars>>

-----------------------------------------------------------------------------
(* Providers.  position, text and values are optional in the source, hence  *)
(* the has* flags; a provider's get() returns the same result every time.   *)

MkProvider(name, hasPos, pos, private, dynamic, hasText, text, hasVals, vals) ==
    [name |-> name, hasPosition |-> hasPos, position |-> pos,
     private |-> private, dynamic |-> dynamic,
     hasText |-> hasText, text |-> text,
     hasValues |-> hasVals, values |-> vals]

\* {}: an object without keys
NoValues == [key \in {} |-> ""]

P1 == MkProvider("P1", TRUE, 0, FALSE, FALSE, TRUE, "ctx1", TRUE, [k |-> "p1"])

P2 == MkProvider("P2", TRUE, 5, FALSE, FALSE, TRUE, "ctx2", TRUE,
                 [k |-> "p2", providers |-> "p2"])

RecentMessages ==
    MkProvider("RECENT_MESSAGES", TRUE, 10, FALSE, FALSE, TRUE, "recent", TRUE,
               [k |-> "rm", recent |-> "rm"])

\* private, at P1's position, empty text
Evaluators ==
    MkProvider("EVALUATORS", TRUE, 0, TRUE, FALSE, TRUE, "", TRUE,
               [k |-> "ev"])

\* dynamic, returns neither text nor values
Dyn == MkProvider("DYN", TRUE, -5, FALSE, TRUE, FALSE, "", FALSE, NoValues)

ProviderPool == {P1, P2, RecentMessages, Evaluators, Dyn}

ProviderNames == {p.name : p \in ProviderPool}

Messages == {"m1"}

\* The <<filterList, includeList>> pairs callers pass; the code only tests
\* membership, so a list is modelled by the set of its names, and null is the
\* empty list (both fail `list && list.length > 0`).  processActions passes
\* ["RECENT_MESSAGES"] and evaluate ["RECENT_MESSAGES", "EVALUATORS"] as
\* filterList.
ComposeArgs ==
    { <<{}, {}>>,
      <<{"RECENT_MESSAGES"}, {}>>,
      <<{"RECENT_MESSAGES", "EVALUATORS"}, {}>>,
      <<{"DYN"}, {}>>,
      <<{}, {"EVALUATORS"}>>,
      <<{}, {"DYN"}>> }

\* The pairs passed by calls that overlap: the default, a filterList with a
\* private name, a filterList with a dynamic name, an includeList.
OverlapArgs ==
    { <<{}, {}>>,
      <<{"RECENT_MESSAGES", "EVALUATORS"}, {}>>,
      <<{"DYN"}, {}>>,
      <<{}, {"EVALUATORS"}>> }

-----------------------------------------------------------------------------
(* State snapshots.  data.providers is a JS object; its key order (insertion*)
(* order for these names) is observable through for..in, so it is a         *)
(* sequence of <<name, values>> entries.                                    *)

EmptyState == [values |-> NoValues, providers |-> <<>>, text |-> ""]

NoEntry == [absent |-> TRUE]

\* (await this.stateCache.get(message.id)) || {values: {}, data: {}, text: ""}
CachedStateOf(cache, m) == IF cache[m] = NoEntry THEN EmptyState ELSE cache[m]

\* Object.keys(cachedState.data.providers)
KeysOf(entries) == {entries[i].name : i \in 1..Len(entries)}

\* (a.position || 0)
Position(p) == IF p.hasPosition THEN p.position ELSE 0

RECURSIVE InsertSorted(_, _)
InsertSorted(p, s) ==
    IF s = <<>> THEN <<p>>
    ELSE IF Position(p) < Position(Head(s)) THEN <<p>> \o s
    ELSE <<Head(s)>> \o InsertSorted(p, Tail(s))

\* Array.prototype.sort with the position comparator: stable.
RECURSIVE SortByPosition(_)
SortByPosition(s) ==
    IF s = <<>> THEN <<>>
    ELSE InsertSorted(s[Len(s)], SortByPosition(SubSeq(s, 1, Len(s) - 1)))

\* Array.from(new Set(list)): first occurrence of each object kept.
RECURSIVE Dedupe(_)
Dedupe(s) ==
    IF s = <<>> THEN <<>>
    ELSE LET front == Dedupe(SubSeq(s, 1, Len(s) - 1))
             last == s[Len(s)]
         IN IF \E i \in 1..Len(front) : front[i] = last
            THEN front ELSE Append(front, last)

\* An assignment that keeps the target's value of a key both define.
ObjectAssignKeeping(target, source) == target @@ source

\* Object.assign(target, source): source's keys win.
ObjectAssign(target, source) == source @@ target

\* `await provider.get(this, message, cachedState)` spread with providerName.
ResultOf(p) ==
    [providerName |-> p.name, hasText |-> p.hasText, text |-> p.text,
     hasValues |-> p.hasValues, values |-> p.values]

\* A selection whose default branch does not look at the flags.
ProviderNamesToGetUnflagged(provs, cachedState, filterList, includeList) ==
    LET existingProviderNames == KeysOf(cachedState.providers)
        base == IF filterList # {}
                THEN filterList
                ELSE {provs[i].name : i \in
                        {j \in 1..Len(provs) :
                            provs[j].name \notin existingProviderNames}}
    IN base \cup includeList

\* Step 1 and 2 of composeState: the names to fetch.
ProviderNamesToGet(provs, cachedState, filterList, includeList) ==
    LET existingProviderNames == KeysOf(cachedState.providers)
        base == IF filterList # {}
                THEN filterList
                ELSE {provs[i].name : i \in
                        {j \in 1..Len(provs) :
                            /\ ~provs[j].private
                            /\ ~provs[j].dynamic
                            /\ provs[j].name \notin existingProviderNames}}
    IN base \cup includeList

\* The provider objects for those names, deduplicated, sorted by position.
ProvidersToGet(provs, cachedState, filterList, includeList) ==
    LET providerNames ==
            ProviderNamesToGet(provs, cachedState, filterList, includeList)
        Has(p) == p.name \in providerNames
    IN SortByPosition(Dedupe(SelectSeq(provs, Has)))

\* Promise.all over providersToGet: the results are in the order of
\* providersToGet, whatever the order `completion` in which the gets finished.
ProviderData(toGet, completion) == [i \in 1..Len(toGet) |-> ResultOf(toGet[i])]

\* combinedValues[result.providerName] = result.values || {} on a JS object:
\* an existing key keeps its place, a new key goes last.
SetEntry(entries, name, values) ==
    IF name \in KeysOf(entries)
    THEN [i \in 1..Len(entries) |->
            IF entries[i].name = name
            THEN [name |-> name, values |-> values] ELSE entries[i]]
    ELSE Append(entries, [name |-> name, values |-> values])

RECURSIVE CombinedValues(_, _)
CombinedValues(existingProviderData, providerData) ==
    IF providerData = <<>> THEN existingProviderData
    ELSE LET n == Len(providerData)
             result == providerData[n]
             sofar == CombinedValues(existingProviderData,
                                     SubSeq(providerData, 1, n - 1))
         IN SetEntry(sofar, result.providerName,
                     IF result.hasValues THEN result.values ELSE NoValues)

\* Array.prototype.join("\n"): undefined elements are joined as "".
RECURSIVE JoinLines(_)
JoinLines(results) ==
    IF results = <<>> THEN ""
    ELSE LET n == Len(results)
             last == IF results[n].hasText THEN results[n].text ELSE ""
         IN IF n = 1 THEN last
            ELSE JoinLines(SubSeq(results, 1, n - 1)) \o "\n" \o last

\* providerData.map(r => r.text).filter(text => text !== "").join("\n")
NewProvidersText(providerData) ==
    LET Kept(r) == ~(r.hasText /\ r.text = "")
    IN JoinLines(SelectSeq(providerData, Kept))

ProvidersText(cachedText, newProvidersText) ==
    IF cachedText # "" /\ newProvidersText # ""
    THEN cachedText \o "\n" \o newProvidersText
    ELSE IF newProvidersText # "" THEN newProvidersText
    ELSE IF cachedText # "" THEN cachedText
    ELSE ""

\* for (const providerName in combinedValues) Object.assign(values, ...)
RECURSIVE MergeValues(_, _)
MergeValues(values, entries) ==
    IF entries = <<>> THEN values
    ELSE MergeValues(ObjectAssign(values, Head(entries).values), Tail(entries))

\* The state composeState assembles, caches and returns.
NewState(cachedState, providerData) ==
    LET combinedValues == CombinedValues(cachedState.providers, providerData)
        providersText == ProvidersText(cachedState.text,
                                       NewProvidersText(providerData))
        values == MergeValues(cachedState.values, combinedValues)
    IN [values |-> ObjectAssign(values, [providers |-> providersText]),
        providers |-> combinedValues,
        text |-> providersText]

-----------------------------------------------------------------------------
(* composeState, cut at its awaits: the cache read, the provider fan-out    *)
(* (every get is invoked, with the cached state, before any is awaited)     *)
(* and the merge after Promise.all.                                         *)

IdleCall ==
    [pc |-> "idle", msg |-> "m1", filterList |-> {}, includeList |-> {},
     hadEntry |-> FALSE, startEntry |-> NoEntry, cachedState |-> EmptyState,
     toGet |-> <<>>, inputs |-> <<>>]

\* No composeState call has returned yet.
NoReturn ==
    [returned |-> FALSE, msg |-> "m1", filterList |-> {}, includeList |-> {},
     hadEntry |-> FALSE, cachedState |-> EmptyState, toGet |-> <<>>,
     state |-> EmptyState, fetched |-> [m \in Messages |-> {}]]

\* The provider names fetched for a message once the providers of toGet
\* have been fetched for m as well.
FetchedWith(fetched, m, toGet) ==
    [fetched EXCEPT ![m] = @ \cup {toGet[i].name : i \in 1..Len(toGet)}]

\* Every provider is handed the merge of the results of the providers that
\* precede it in providersToGet.
ProviderInputsInProgress(toGet, cachedState) ==
    [i \in 1..Len(toGet) |->
        NewState(cachedState,
                 ProviderData(SubSeq(toGet, 1, i - 1),
                              [k \in 1..(i - 1) |-> k]))]

\* provider.get(this, message, cachedState) in the map callback: the third
\* argument of every get is the cachedState read when the call began.
ProviderInputs(toGet, cachedState) == [i \in 1..Len(toGet) |-> cachedState]

\* The orders in which n concurrent fetches can complete.
CompletionOrders(n) ==
    {f \in [1..n -> 1..n] : \A i, j \in 1..n : i # j => f[i] # f[j]}

\* registerProvider / registerContextProvider: this.providers.push(provider).
\* Providers are registered while the plugins are installed, before the
\* runtime composes state for a message.
registerProvider(p) ==
    /\ Len(providers) < MaxProviders
    /\ nCalls = 0
    /\ \A i \in 1..Len(providers) : providers[i] # p
    /\ providers' = Append(providers, p)
    /\ UNCHANGED <<stateCache, calls, lastCall, nCalls>>
    /\ UNCHANGED <<serviceVars, actionVars, evalVars, auditLog>>
    /\ UNCHANGED extVars

\* const cachedState = (await this.stateCache.get(message.id)) || {...}
composeStateRead(c, m, filterList, includeList) ==
    /\ calls[c].pc = "idle"
    /\ \A d \in 1..(c - 1) : calls[d].pc # "idle"
    /\ nCalls' = nCalls + 1
    /\ calls' = [calls EXCEPT ![c] =
                    [@ EXCEPT !.pc = "read", !.msg = m,
                              !.filterList = filterList,
                              !.includeList = includeList,
                              !.hadEntry = (stateCache[m] # NoEntry),
                              !.startEntry = stateCache[m],
                              !.cachedState = CachedStateOf(stateCache, m)]]
    /\ UNCHANGED <<providers, stateCache, lastCall>>
    /\ UNCHANGED <<serviceVars, actionVars, evalVars, auditLog>>
    /\ UNCHANGED extVars

\* providersToGet.map(async (provider) => provider.get(this, message,
\* cachedState)): every get is invoked before Promise.all is awaited.
composeStateFetch(c) ==
    /\ calls[c].pc = "read"
    /\ LET toGet == ProvidersToGet(providers, calls[c].cachedState,
                                   calls[c].filterList, calls[c].includeList)
       IN calls' = [calls EXCEPT ![c] =
                    [@ EXCEPT !.pc = "fetching",
                              !.toGet = toGet,
                              !.inputs = ProviderInputs(toGet,
                                            calls[c].cachedState)]]
    /\ UNCHANGED <<providers, stateCache, lastCall, nCalls>>
    /\ UNCHANGED <<serviceVars, actionVars, evalVars, auditLog>>
    /\ UNCHANGED extVars

\* After Promise.all: merge, this.stateCache.set(message.id, newState), return.
composeStateMerge(c) ==
    /\ calls[c].pc = "fetching"
    /\ \E completion \in CompletionOrders(Len(calls[c].toGet)) :
        LET newState == NewState(calls[c].cachedState,
                                 ProviderData(calls[c].toGet, completion))
        IN /\ stateCache' = [stateCache EXCEPT ![calls[c].msg] = newState]
           /\ lastCall' = [returned |-> TRUE, msg |-> calls[c].msg,
                           filterList |-> calls[c].filterList,
                           includeList |-> calls[c].includeList,
                           hadEntry |-> calls[c].hadEntry,
                           cachedState |-> calls[c].cachedState,
                           toGet |-> calls[c].toGet,
                           state |-> newState,
                           fetched |-> FetchedWith(lastCall.fetched,
                                            calls[c].msg, calls[c].toGet)]
    /\ calls' = [calls EXCEPT ![c] = IdleCall]
    /\ UNCHANGED <<providers, nCalls>>
    /\ UNCHANGED <<serviceVars, actionVars, evalVars, auditLog>>
    /\ UNCHANGED extVars

-----------------------------------------------------------------------------
(* The service registry.  registerService is cut at `await service.start`:  *)
(* the type check, the has() check and the call of the start factory run    *)
(* when registerService is called; services.set runs when start resolves.   *)

\* Most registerService calls in one behaviour; they may all be in flight
\* together, as the Promise.all over plugin.services launches them.
MaxRegistrations == 3

\* Service classes; serviceType "" stands for a class without serviceType.
ServicePool ==
    { [name |-> "TwitterService", serviceType |-> "twitter"],
      [name |-> "TwitterMirror", serviceType |-> "twitter"],
      [name |-> "BrowserService", serviceType |-> "browser"],
      [name |-> "Untyped", serviceType |-> ""] }

ServiceTypes == {s.serviceType : s \in ServicePool} \ {""}

\* this.services.has(serviceType)
MapHas(map, key) == \E i \in 1..Len(map) : map[i].key = key

\* this.services.set(serviceType, serviceInstance)
MapSet(map, key, value) ==
    IF MapHas(map, key)
    THEN [i \in 1..Len(map) |->
            IF map[i].key = key THEN [key |-> key, value |-> value] ELSE map[i]]
    ELSE Append(map, [key |-> key, value |-> value])

\* this.services.get(service), or null
getService(map, key) ==
    IF MapHas(map, key)
    THEN (map[CHOOSE i \in 1..Len(map) : map[i].key = key]).value
    ELSE "null"

\* registerService up to its await: returns at once for a class without type
\* or a type already in the map, else calls service.start(this).
registerServiceCall(s) ==
    /\ Len(regs) < MaxRegistrations
    /\ regs' = Append(regs,
                [service |-> s,
                 pc |-> IF s.serviceType = "" THEN "no_type"
                        ELSE IF MapHas(services, s.serviceType) THEN "skipped"
                        ELSE "starting"])
    /\ UNCHANGED <<services, composeVars, actionVars, evalVars, auditLog>>
    /\ UNCHANGED extVars

\* service.start resolved: this.services.set(serviceType, serviceInstance).
registerServiceStarted(r) ==
    /\ regs[r].pc = "starting"
    /\ services' = MapSet(services, regs[r].service.serviceType,
                          [class |-> regs[r].service.name, startedBy |-> r])
    /\ regs' = [regs EXCEPT ![r].pc = "registered"]
    /\ UNCHANGED <<composeVars, actionVars, evalVars, auditLog>>
    /\ UNCHANGED extVars

\* service.start rejected: registerService rejects, nothing is stored.
registerServiceFailed(r) ==
    /\ regs[r].pc = "starting"
    /\ regs' = [regs EXCEPT ![r].pc = "failed"]
    /\ UNCHANGED <<services, composeVars, actionVars, evalVars, auditLog>>
    /\ UNCHANGED extVars

ServiceNext ==
    \/ \E s \in ServicePool : registerServiceCall(s)
    \/ \E r \in 1..Len(regs) : registerServiceStarted(r)
    \/ \E r \in 1..Len(regs) : registerServiceFailed(r)

-----------------------------------------------------------------------------
(* processActions.  Action names are sequences of one-character strings so  *)
(* that normalisation and substring containment are computed, not assumed.  *)

\* Most actions registered in one behaviour.
MaxActions == 3
\* Most responses in the batch passed to processActions.
MaxResponses == 2

UpperCase == <<"A", "B", "C", "D", "E", "F", "G", "H", "I", "J", "K", "L", "M",
               "N", "O", "P", "Q", "R", "S", "T", "U", "V", "W", "X", "Y", "Z">>

LowerCase == <<"a", "b", "c", "d", "e", "f", "g", "h", "i", "j", "k", "l", "m",
               "n", "o", "p", "q", "r", "s", "t", "u", "v", "w", "x", "y", "z">>

\* String.prototype.toLowerCase
toLowerCase(str) ==
    [i \in 1..Len(str) |->
        IF \E u \in 1..Len(UpperCase) : UpperCase[u] = str[i]
        THEN LowerCase[CHOOSE u \in 1..Len(UpperCase) : UpperCase[u] = str[i]]
        ELSE str[i]]

\* String.prototype.replace(pattern, "") with a string pattern of one
\* character: only the first occurrence is removed.
ReplaceFirst(str, ch) ==
    IF \E i \in 1..Len(str) : str[i] = ch
    THEN LET first == CHOOSE i \in 1..Len(str) :
                        /\ str[i] = ch
                        /\ \A j \in 1..(i - 1) : str[j] # ch
         IN SubSeq(str, 1, first - 1) \o SubSeq(str, first + 1, Len(str))
    ELSE str

\* action.toLowerCase().replace("_", "")
normalizeAction(action) == ReplaceFirst(toLowerCase(action), "_")

\* A looser match: the characters of sub occur in str in order, with gaps.
RECURSIVE IncludesScattered(_, _)
IncludesScattered(str, sub) ==
    IF sub = <<>> THEN TRUE
    ELSE IF str = <<>> THEN FALSE
    ELSE IF Head(str) = Head(sub) THEN IncludesScattered(Tail(str), Tail(sub))
    ELSE IncludesScattered(Tail(str), sub)

\* String.prototype.includes
Includes(str, sub) ==
    \E i \in 0..(Len(str) - Len(sub)) : SubSeq(str, i + 1, i + Len(sub)) = sub

\* Array.prototype.find as an index: given the indexes of the elements that
\* satisfy the test, the first of them, 0 if there is none.
FindIndex(satisfying) ==
    IF satisfying = {} THEN 0
    ELSE CHOOSE i \in satisfying : \A j \in satisfying : i <= j

\* Fuzzy match of a requested name with a registered name or simile.
FuzzyMatch(name, normalizedResponseAction) ==
    \/ Includes(normalizeAction(name), normalizedResponseAction)
    \/ Includes(normalizedResponseAction, normalizeAction(name))

\* _action.similes?.find(...) is truthy: find returns the first matching
\* simile, and an empty string is falsy.
SimileFound(action, normalizedResponseAction) ==
    /\ action.hasSimiles
    /\ LET Matches(simile) == FuzzyMatch(simile, normalizedResponseAction)
           found == FindIndex({k \in 1..Len(action.similes) :
                                Matches(action.similes[k])})
       IN found # 0 /\ action.similes[found] # <<>>

\* A resolution that consults the similes before the names.
ResolveActionSimilesFirst(registered, responseAction) ==
    LET normalizedResponseAction == normalizeAction(responseAction)
        NameMatches(a) == FuzzyMatch(a.name, normalizedResponseAction)
        SimileMatches(a) == SimileFound(a, normalizedResponseAction)
        bySimile == FindIndex({i \in 1..Len(registered) :
                                    SimileMatches(registered[i])})
    IN IF bySimile # 0 THEN bySimile
       ELSE FindIndex({i \in 1..Len(registered) : NameMatches(registered[i])})

\* The index in this.actions of the action a requested name resolves to, or 0:
\* find over the names, then the loop over the similes if none was found.
ResolveAction(registered, responseAction) ==
    LET normalizedResponseAction == normalizeAction(responseAction)
        NameMatches(a) == FuzzyMatch(a.name, normalizedResponseAction)
        SimileMatches(a) == SimileFound(a, normalizedResponseAction)
        byName == FindIndex({i \in 1..Len(registered) :
                                NameMatches(registered[i])})
    IN IF byName # 0 THEN byName
       ELSE FindIndex({i \in 1..Len(registered) :
                        SimileMatches(registered[i])})

SEND_MESSAGE == <<"S", "E", "N", "D", "_", "M", "E", "S", "S", "A", "G", "E">>

REPLY == <<"R", "E", "P", "L", "Y">>

RESPOND == <<"R", "E", "S", "P", "O", "N", "D">>

SEND_DIRECT_MESSAGE == <<"S", "E", "N", "D", "_", "D", "I", "R", "E", "C", "T", "_", "M", "E", "S", "S", "A", "G", "E">>

MUTE == <<"M", "U", "T", "E">>

IGNORE == <<"I", "G", "N", "O", "R", "E">>

MkAction(name, hasSimiles, similes, hasHandler) ==
    [name |-> name, hasSimiles |-> hasSimiles, similes |-> similes,
     hasHandler |-> hasHandler]

SendMessage == MkAction(SEND_MESSAGE, FALSE, <<>>, TRUE)

Reply == MkAction(REPLY, TRUE, <<RESPOND, SEND_MESSAGE>>, TRUE)

SendDirectMessage == MkAction(SEND_DIRECT_MESSAGE, TRUE, <<>>, TRUE)

\* An action registered without handler.
Mute == MkAction(MUTE, TRUE, <<IGNORE>>, FALSE)

ActionPool == {SendMessage, Reply, SendDirectMessage, Mute}

send_message == <<"s", "e", "n", "d", "_", "m", "e", "s", "s", "a", "g", "e">>

sendmsg == <<"s", "e", "n", "d", "m", "s", "g">>

reply == <<"r", "e", "p", "l", "y">>

send == <<"s", "e", "n", "d">>

ignore == <<"i", "g", "n", "o", "r", "e">>

\* A response memory: content.actions may be absent.
MkResponse(hasActions, actionNames) ==
    [hasActions |-> hasActions, actions |-> actionNames]

ResponseChoices ==
    { MkResponse(FALSE, <<>>),
      MkResponse(TRUE, <<sendmsg>>),
      MkResponse(TRUE, <<send>>),
      MkResponse(TRUE, <<ignore>>),
      MkResponse(TRUE, <<send_message, reply>>) }

\* The batches of at most n responses.
RECURSIVE Batches(_)
Batches(n) ==
    IF n = 0 THEN {<<>>}
    ELSE LET shorter == Batches(n - 1)
         IN shorter \cup {Append(b, r) : b \in shorter, r \in ResponseChoices}

\* The position after action a of response r: the next action name of the
\* same response, else the first action name of the next response that has
\* actions (a response without content.actions, or with none, is skipped);
\* <<0, 0>> when the batch is exhausted.  <<0, 0>> is also the start.
NextPosition(responses, r, a) ==
    IF r # 0 /\ a < Len(responses[r].actions) THEN <<r, a + 1>>
    ELSE LET later == {q \in (r + 1)..Len(responses) :
                         /\ responses[q].hasActions
                         /\ Len(responses[q].actions) > 0}
         IN IF later = {} THEN <<0, 0>>
            ELSE <<CHOOSE q \in later : \A q2 \in later : q <= q2, 1>>

IdleProcess ==
    [pc |-> "idle", responses |-> <<>>, r |-> 0, a |-> 0, action |-> 0,
     error |-> [thrownBy |-> 0]]

\* The loops move on to the next action name, or processActions resolves.
Continue(p) ==
    LET pos == NextPosition(p.responses, p.r, p.a)
    IN IF pos = <<0, 0>>
       THEN [p EXCEPT !.pc = "resolved", !.action = 0]
       ELSE [p EXCEPT !.pc = "compose", !.r = pos[1], !.a = pos[2],
                      !.action = 0]

\* A handler that catches the error and carries on with the next action.
HandlerThrewIsolated(p, error) == Continue([p EXCEPT !.error = error])

\* catch (error) { logger.error(error); throw error; }
HandlerThrew(p, error) == [p EXCEPT !.pc = "rejected", !.error = error]

\* The handler is handed the state that was composed for the previous
\* action name, when there was one.
StateForReused(composed, previous) ==
    IF previous.returned THEN previous.state ELSE composed

\* `state = await this.composeState(message, ["RECENT_MESSAGES"])` inside the
\* inner loop: the handler is handed the state composed for its own name.
StateFor(composed, previous) == composed

\* A name that resolves to nothing, or to an action without handler, ends
\* the call.
MissedFatal(p) == [p EXCEPT !.pc = "rejected", !.action = 0]

\* `if (!action) continue` and `if (!action.handler) continue`.
Missed(p) == Continue(p)

\* The audit entry names the action as the response requested it.
ActionEntryRequested(action, responseAction) ==
    [type |-> "action", name |-> responseAction, messageId |-> "m1"]

\* The entry handed to databaseAdapter.log: body.action is action.name,
\* body.messageId is message.id.
ActionEntry(action, responseAction) ==
    [type |-> "action", name |-> action.name, messageId |-> "m1"]

\* The error the n-th handler invocation throws.
ErrorOf(n) == [thrownBy |-> n]

\* composeState run to completion with no other call in flight.
composeState(m, filterList, includeList) ==
    LET cachedState == CachedStateOf(stateCache, m)
        toGet == ProvidersToGet(providers, cachedState, filterList, includeList)
        newState == NewState(cachedState,
                             ProviderData(toGet, [i \in 1..Len(toGet) |-> i]))
    IN /\ stateCache' = [stateCache EXCEPT ![m] = newState]
       /\ lastCall' = [returned |-> TRUE, msg |-> m,
                       filterList |-> filterList,
                       includeList |-> includeList,
                       hadEntry |-> (stateCache[m] # NoEntry),
                       cachedState |-> cachedState,
                       toGet |-> toGet,
                       state |-> newState,
                       fetched |-> FetchedWith(lastCall.fetched, m, toGet)]
       /\ nCalls' = nCalls + 1
       /\ UNCHANGED <<providers, calls>>

\* this.actions.push(action); actions are registered while the plugins are
\* installed, before a message is processed.
registerAction(action) ==
    /\ Len(actions) < MaxActions
    /\ pa.pc = "idle"
    /\ \A i \in 1..Len(actions) : actions[i] # action
    /\ actions' = Append(actions, action)
    /\ UNCHANGED <<pa, invoked, resolved>>
    /\ UNCHANGED <<composeVars, serviceVars, evalVars, auditLog>>
    /\ UNCHANGED extVars

\* processActions(message, responses) up to its first await.
processActionsCall(responses) ==
    /\ pa.pc = "idle"
    /\ pa' = Continue([IdleProcess EXCEPT !.responses = responses])
    /\ UNCHANGED <<actions, invoked, resolved>>
    /\ UNCHANGED <<composeVars, serviceVars, evalVars, auditLog>>
    /\ UNCHANGED extVars

\* One pass of the inner loop up to the handler: composeState(message,
\* ["RECENT_MESSAGES"]), the resolution of the requested name, and either
\* `continue` (no action, no handler) or the call of the handler.
processActionsDispatch ==
    /\ pa.pc = "compose"
    /\ composeState("m1", {"RECENT_MESSAGES"}, {})
    /\ LET responseAction == pa.responses[pa.r].actions[pa.a]
           action == ResolveAction(actions, responseAction)
       IN /\ resolved' = Append(resolved, [requested |-> responseAction,
                                           r |-> pa.r, a |-> pa.a,
                                           action |-> action,
                                           call |-> nCalls',
                                           state |-> lastCall'.state,
                                           started |-> Len(invoked),
                                           logged |-> Len(auditLog)])
          /\ IF action = 0 \/ ~actions[IF action = 0 THEN 1 ELSE action].hasHandler
             THEN /\ pa' = Missed(pa)
                  /\ UNCHANGED invoked
             ELSE /\ pa' = [pa EXCEPT !.pc = "handler", !.action = action]
                  /\ invoked' = Append(invoked,
                                    [action |-> action, r |-> pa.r, a |-> pa.a,
                                     outcome |-> "running",
                                     state |-> StateFor(lastCall'.state,
                                                        lastCall)])
    /\ UNCHANGED <<actions, serviceVars, evalVars, auditLog>>
    /\ UNCHANGED extVars

\* await action.handler(...) resolved.
processActionsHandlerReturns ==
    /\ pa.pc = "handler"
    /\ invoked' = [invoked EXCEPT ![Len(invoked)].outcome = "returned"]
    /\ pa' = [pa EXCEPT !.pc = "log"]
    /\ UNCHANGED <<actions, resolved>>
    /\ UNCHANGED <<composeVars, serviceVars, evalVars, auditLog>>
    /\ UNCHANGED extVars

\* await action.handler(...) rejected: the catch block rethrows.
processActionsHandlerThrows ==
    /\ pa.pc = "handler"
    /\ invoked' = [invoked EXCEPT ![Len(invoked)].outcome = "threw"]
    /\ pa' = HandlerThrew(pa, ErrorOf(Len(invoked)))
    /\ UNCHANGED <<actions, resolved>>
    /\ UNCHANGED <<composeVars, serviceVars, evalVars, auditLog>>
    /\ UNCHANGED extVars

\* await this.getDatabaseAdapter().log({type: "action", ...}) resolved.
processActionsLogged ==
    /\ pa.pc = "log"
    /\ auditLog' = Append(auditLog,
                          ActionEntry(actions[pa.action],
                                      pa.responses[pa.r].actions[pa.a]))
    /\ pa' = Continue(pa)
    /\ UNCHANGED <<actions, invoked, resolved>>
    /\ UNCHANGED <<composeVars, serviceVars, evalVars>>
    /\ UNCHANGED extVars

ActionsNext ==
    \/ registerProvider(RecentMessages)
    \/ \E action \in ActionPool : registerAction(action)
    \/ /\ pa.pc = "idle"
       /\ \E responses \in Batches(MaxResponses) :
            processActionsCall(responses)
    \/ processActionsDispatch
    \/ processActionsHandlerReturns
    \/ processActionsHandlerThrows
    \/ processActionsLogged

-----------------------------------------------------------------------------
(* evaluate.  The validation map runs each evaluator's async callback up to *)
(* its await: the gating tests and the call of validate happen when         *)
(* evaluate is called, in registration order; the results come back in any  *)
(* order.                                                                   *)

\* Most evaluators registered in one behaviour.
MaxEvaluators == 3

MkEvaluator(name, hasHandler, alwaysRun) ==
    [name |-> name, hasHandler |-> hasHandler, alwaysRun |-> alwaysRun]

Reflection == MkEvaluator("REFLECTION", TRUE, FALSE)

Goal == MkEvaluator("GOAL", TRUE, TRUE)

\* An evaluator registered without handler.
Fact == MkEvaluator("FACT", FALSE, TRUE)

EvaluatorPool == {Reflection, Goal, Fact}

\* Every evaluator's validate is called whatever the flags.
ValidateUngated(evaluator, didRespond) == TRUE

\* The callback reaches `await evaluator.validate(...)`: neither
\* `if (!evaluator.handler) return null` nor
\* `if (!didRespond && !evaluator.alwaysRun) return null` returned first.
ValidateInvoked(evaluator, didRespond) ==
    /\ evaluator.hasHandler
    /\ (didRespond \/ evaluator.alwaysRun)

\* No state was handed to the handler.
NoState == [EmptyState EXCEPT !.text = "none"]

IdleEvaluate ==
    [pc |-> "idle", didRespond |-> FALSE, validation |-> <<>>,
     handlers |-> <<>>, given |-> <<>>, result |-> <<>>]

\* (await Promise.all(evaluatorPromises)).filter(Boolean): the evaluators
\* whose promise resolved to the evaluator, in the order of this.evaluators.
Selected(registered, validation) ==
    LET Chosen(i) == validation[i] = "true"
        chosen == SelectSeq([i \in 1..Len(registered) |-> i], Chosen)
    IN [k \in 1..Len(chosen) |-> registered[chosen[k]]]

\* this.evaluators.push(evaluator), while the plugins are installed.
registerEvaluator(evaluator) ==
    /\ Len(evaluators) < MaxEvaluators
    /\ ev.pc = "idle"
    /\ \A i \in 1..Len(evaluators) : evaluators[i] # evaluator
    /\ evaluators' = Append(evaluators, evaluator)
    /\ UNCHANGED <<ev, composeVars, serviceVars, actionVars, auditLog>>
    /\ UNCHANGED extVars

\* evaluate(message, state, didRespond) up to `await Promise.all(...)`.
evaluateCall(didRespond) ==
    /\ ev.pc = "idle"
    /\ ev' = [IdleEvaluate EXCEPT
                !.pc = "validating",
                !.didRespond = didRespond,
                !.validation = [i \in 1..Len(evaluators) |->
                                  IF ValidateInvoked(evaluators[i], didRespond)
                                  THEN "pending" ELSE "skipped"],
                !.handlers = [i \in 1..Len(evaluators) |-> "none"]]
    /\ UNCHANGED <<evaluators, composeVars, serviceVars, actionVars, auditLog>>
    /\ UNCHANGED extVars

\* evaluator.validate resolved with a truthy or falsy result.
evaluateValidated(i, result) ==
    /\ ev.pc = "validating"
    /\ ev.validation[i] = "pending"
    /\ ev' = [ev EXCEPT !.validation[i] = IF result THEN "true" ELSE "false"]
    /\ UNCHANGED <<evaluators, composeVars, serviceVars, actionVars, auditLog>>
    /\ UNCHANGED extVars

\* evaluator.validate rejected: Promise.all, and with it evaluate, rejects.
evaluateValidateThrows(i) ==
    /\ ev.pc = "validating"
    /\ ev.validation[i] = "pending"
    /\ ev' = [ev EXCEPT !.pc = "rejected", !.validation[i] = "threw"]
    /\ UNCHANGED <<evaluators, composeVars, serviceVars, actionVars, auditLog>>
    /\ UNCHANGED extVars

\* The state is recomposed whatever was selected.
AfterValidationRecompose(e, selected) == [e EXCEPT !.pc = "composing"]

\* `if (evaluators.length === 0) return []`, before composeState.
AfterValidation(e, selected) ==
    IF selected = <<>>
    THEN [e EXCEPT !.pc = "returned", !.result = <<>>]
    ELSE [e EXCEPT !.pc = "composing"]

\* Promise.all resolved: filter(Boolean); `return []` if nothing was selected.
evaluateSelect ==
    /\ ev.pc = "validating"
    /\ \A i \in 1..Len(evaluators) : ev.validation[i] # "pending"
    /\ ev' = AfterValidation(ev, Selected(evaluators, ev.validation))
    /\ UNCHANGED <<evaluators, composeVars, serviceVars, actionVars, auditLog>>
    /\ UNCHANGED extVars

\* composeState(message, ["RECENT_MESSAGES", "EVALUATORS"]), then the handler
\* of every selected evaluator is called before any is awaited.
evaluateRunHandlers ==
    /\ ev.pc = "composing"
    /\ composeState("m1", {"RECENT_MESSAGES", "EVALUATORS"}, {})
    /\ ev' = [ev EXCEPT !.pc = "handlers",
                        !.handlers = [i \in 1..Len(evaluators) |->
                                        IF ev.validation[i] = "true"
                                        THEN "running" ELSE "none"],
                        !.given = [i \in 1..Len(evaluators) |->
                                        IF ev.validation[i] = "true"
                                        THEN lastCall'.state ELSE NoState]]
    /\ UNCHANGED <<evaluators, serviceVars, actionVars, auditLog>>
    /\ UNCHANGED extVars

\* await evaluator.handler(...) resolved.  A handler that is running keeps
\* running when evaluate has already rejected because of another one.
evaluateHandlerReturns(i) ==
    /\ ev.pc \in {"handlers", "rejected"}
    /\ ev.handlers[i] = "running"
    /\ ev' = [ev EXCEPT !.handlers[i] = "logging"]
    /\ UNCHANGED <<evaluators, composeVars, serviceVars, actionVars, auditLog>>
    /\ UNCHANGED extVars

\* await evaluator.handler(...) rejected: Promise.all rejects.
evaluateHandlerThrows(i) ==
    /\ ev.pc \in {"handlers", "rejected"}
    /\ ev.handlers[i] = "running"
    /\ ev' = [ev EXCEPT !.pc = "rejected", !.handlers[i] = "threw"]
    /\ UNCHANGED <<evaluators, composeVars, serviceVars, actionVars, auditLog>>
    /\ UNCHANGED extVars

\* await this.getDatabaseAdapter().log({type: "evaluator", ...}) resolved.
evaluateLogged(i) ==
    /\ ev.pc \in {"handlers", "rejected"}
    /\ ev.handlers[i] = "logging"
    /\ ev' = [ev EXCEPT !.handlers[i] = "done"]
    /\ auditLog' = Append(auditLog,
                          [type |-> "evaluator", name |-> evaluators[i].name,
                           messageId |-> "m1"])
    /\ UNCHANGED <<evaluators, composeVars, serviceVars, actionVars>>
    /\ UNCHANGED extVars

\* The second Promise.all resolved: return evaluators.
evaluateReturn ==
    /\ ev.pc = "handlers"
    /\ \A i \in 1..Len(evaluators) : ev.handlers[i] \in {"none", "done"}
    /\ ev' = [ev EXCEPT !.pc = "returned",
                        !.result = Selected(evaluators, ev.validation)]
    /\ UNCHANGED <<evaluators, composeVars, serviceVars, actionVars, auditLog>>
    /\ UNCHANGED extVars

EvaluateNext ==
    \/ \E p \in {RecentMessages, Evaluators} : registerProvider(p)
    \/ \E evaluator \in EvaluatorPool : registerEvaluator(evaluator)
    \/ \E didRespond \in BOOLEAN : evaluateCall(didRespond)
    \/ \E i \in 1..Len(evaluators), result \in BOOLEAN :
            evaluateValidated(i, result)
    \/ \E i \in 1..Len(evaluators) : evaluateValidateThrows(i)
    \/ evaluateSelect
    \/ evaluateRunHandlers
    \/ \E i \in 1..Len(evaluators) : evaluateHandlerReturns(i)
    \/ \E i \in 1..Len(evaluators) : evaluateHandlerThrows(i)
    \/ \E i \in 1..Len(evaluators) : evaluateLogged(i)
    \/ evaluateReturn

-----------------------------------------------------------------------------
(* The model registry and useModel.  useModel is cut at `await model(...)`  *)
(* and at `await this.getDatabaseAdapter().log(...)`.                       *)

\* Most registerModel calls in one behaviour.
MaxModels == 3

ModelTypeKeys == {"TEXT_EMBEDDING", "TEXT_SMALL"}

\* Model handlers; the response of a handler is determined by the handler.
ModelHandlers == {"h1", "h2", "h3"}

ResponseOf(handler) == [from |-> handler]

NoResponse == [from |-> "nobody"]

\* this.models.get(modelKey), [] standing for undefined
HandlersOf(map, key) ==
    IF MapHas(map, key)
    THEN (map[CHOOSE i \in 1..Len(map) : map[i].key = key]).value
    ELSE <<>>

\* A registry in which the latest registration comes first.
registerModelFirst(map, modelKey, handler) ==
    MapSet(map, modelKey, <<handler>> \o HandlersOf(map, modelKey))

\* registerModel: the list for the key is created if absent, the handler is
\* pushed at its end.
registerModelLast(map, modelKey, handler) ==
    MapSet(map, modelKey, Append(HandlersOf(map, modelKey), handler))

\* getModel: models[0], or undefined when there is no list or an empty one.
getModel(map, modelKey) ==
    IF Len(HandlersOf(map, modelKey)) = 0 THEN "undefined"
    ELSE HandlersOf(map, modelKey)[1]

\* The Error useModel throws: `No handler found for delegate type: ${modelKey}`.
NoHandlerError(modelKey) == [message |-> "No handler found", key |-> modelKey]

NoError == [message |-> "", key |-> ""]

IdleUseModel ==
    [pc |-> "idle", modelType |-> "", caller |-> "", handler |-> "undefined",
     called |-> <<>>, response |-> NoResponse, error |-> NoError,
     logged |-> 0, registeredBefore |-> 0]

\* A useModel that resolves with no result when there is no handler.
UseModelStartLenient(modelType, caller) ==
    LET model == getModel(models, modelType)
        call == [IdleUseModel EXCEPT !.modelType = modelType,
                                     !.caller = caller,
                                     !.registeredBefore = Len(modelCalls)]
    IN IF model = "undefined"
       THEN [call EXCEPT !.pc = "returned"]
       ELSE [call EXCEPT !.pc = "handler", !.handler = model,
                         !.called = <<model>>]

\* useModel up to its first await: getModel, then the throw or the call of
\* the handler.
UseModelStart(modelType, caller) ==
    LET model == getModel(models, modelType)
        call == [IdleUseModel EXCEPT !.modelType = modelType,
                                     !.caller = caller,
                                     !.registeredBefore = Len(modelCalls)]
    IN IF model = "undefined"
       THEN [call EXCEPT !.pc = "rejected",
                         !.error = NoHandlerError(modelType)]
       ELSE [call EXCEPT !.pc = "handler", !.handler = model,
                         !.called = <<model>>]

\* type: `useModel:${modelType}`
UseModelTag(modelType) == "useModel:" \o modelType

registerModel(modelType, handler) ==
    /\ models' = registerModelLast(models, modelType, handler)
    /\ modelCalls' = Append(modelCalls, [key |-> modelType, handler |-> handler])
    /\ UNCHANGED <<um, knowledgeVars, pluginVars, eventVars, stopping>>
    /\ UNCHANGED <<composeVars, serviceVars, actionVars, evalVars, auditLog>>
    /\ UNCHANGED startVars

\* The handlers registered so far, over all keys.
RegisteredModels ==
    LET RECURSIVE Count(_)
        Count(i) == IF i = 0 THEN 0 ELSE Len(models[i].value) + Count(i - 1)
    IN Count(Len(models))

useModelCall(modelType) ==
    /\ um.pc = "idle"
    /\ um' = UseModelStart(modelType, "user")
    /\ UNCHANGED <<models, modelCalls, knowledgeVars, pluginVars, eventVars, stopping>>
    /\ UNCHANGED <<composeVars, serviceVars, actionVars, evalVars, auditLog>>
    /\ UNCHANGED startVars

\* await model(this, params) resolved.
useModelHandlerReturns ==
    /\ um.pc = "handler"
    /\ um' = [um EXCEPT !.pc = "log", !.response = ResponseOf(um.handler)]
    /\ UNCHANGED <<models, modelCalls, knowledgeVars, pluginVars, eventVars, stopping>>
    /\ UNCHANGED <<composeVars, serviceVars, actionVars, evalVars, auditLog>>
    /\ UNCHANGED startVars

\* await model(this, params) rejected: useModel rejects, nothing is logged.
useModelHandlerThrows ==
    /\ um.pc = "handler"
    /\ um' = [um EXCEPT !.pc = "rejected",
                        !.error = [message |-> "handler failed",
                                   key |-> um.handler]]
    /\ UNCHANGED <<models, modelCalls, knowledgeVars, pluginVars, eventVars, stopping>>
    /\ UNCHANGED <<composeVars, serviceVars, actionVars, evalVars, auditLog>>
    /\ UNCHANGED startVars

\* await this.getDatabaseAdapter().log({...}) resolved; return response.
useModelLogged ==
    /\ um.pc = "log"
    /\ auditLog' = Append(auditLog,
                          [type |-> UseModelTag(um.modelType),
                           name |-> um.modelType, messageId |-> ""])
    /\ um' = [um EXCEPT !.pc = "returned", !.logged = Len(auditLog) + 1]
    /\ UNCHANGED <<models, modelCalls, knowledgeVars, pluginVars, eventVars, stopping>>
    /\ UNCHANGED <<composeVars, serviceVars, actionVars, evalVars>>
    /\ UNCHANGED startVars

ModelsNext ==
    \/ /\ RegisteredModels < MaxModels
       /\ \E modelType \in ModelTypeKeys, handler \in ModelHandlers :
            registerModel(modelType, handler)
    \/ \E modelType \in ModelTypeKeys : useModelCall(modelType)
    \/ useModelHandlerReturns
    \/ useModelHandlerThrows
    \/ useModelLogged

-----------------------------------------------------------------------------
(* Knowledge.  The memory tables behind getMemoryManager, createUniqueUuid  *)
(* and splitChunks are not part of runtime.ts: the store is the sequence of *)
(* memories created, an id is found in a table once a memory with that id   *)
(* was created in it, createUniqueUuid is a deterministic injective         *)
(* function of the agent and its argument, and splitChunks a function of    *)
(* the text.                                                                *)

\* Most items in the list passed to processCharacterKnowledge.
MaxItems == 2
\* Most processCharacterKnowledge calls, made one after the other.
MaxIngests == 2

AgentId == "agent"

\* The literal texts of the character's knowledge.
KnowledgeTexts == {"abc", "d"}

\* splitChunks(text, targetTokens, overlap)
splitChunks(text) ==
    IF text = "abc" THEN <<"a", "b", "c">> ELSE <<text>>

\* createUniqueUuid(this, text)
createUniqueUuid(text) == [agent |-> AgentId, base |-> text, fragment |-> -1]

\* createUniqueUuid(this, `${item.id}-fragment-${i}`)
FragmentUuid(itemId, i) == [itemId EXCEPT !.fragment = i]

NoId == [agent |-> "", base |-> "", fragment |-> -1]

\* getMemoryManager(table).getMemoryById(id) finds a memory.
MemoryExists(memories, table, id) ==
    \E w \in 1..Len(memories) :
        memories[w].table = table /\ memories[w].id = id

\* An ingestion that never finds the document.
checkNoKnowledge(memories, knowledgeId) == FALSE

\* checkExistingKnowledge: !!existingDocument
checkExistingKnowledge(memories, knowledgeId) ==
    MemoryExists(memories, "documents", knowledgeId)

\* documentMemory of addKnowledge; its content is item.content, a text and
\* no source (NoId standing for undefined).
DocumentMemory(item) ==
    [table |-> "documents", id |-> item.id, text |-> item.text,
     type |-> "document", documentId |-> NoId, position |-> -1,
     source |-> NoId]

\* A fragment numbered from one.
FragmentMemoryFromOne(item, i, chunk) ==
    [table |-> "knowledge", id |-> FragmentUuid(item.id, i), text |-> chunk,
     type |-> "fragment", documentId |-> item.id, position |-> i + 1,
     source |-> NoId]

\* fragmentMemory of addKnowledge for fragments[i]
FragmentMemory(item, i, chunk) ==
    [table |-> "knowledge", id |-> FragmentUuid(item.id, i), text |-> chunk,
     type |-> "fragment", documentId |-> item.id, position |-> i,
     source |-> NoId]

IdleKnowledge ==
    [pc |-> "idle", call |-> 0, items |-> <<>>, i |-> 0,
     item |-> [id |-> NoId, text |-> ""], fragments |-> <<>>, f |-> 0,
     visits |-> <<>>]

\* The lists of at most n texts.
RECURSIVE ItemLists(_)
ItemLists(n) ==
    IF n = 0 THEN {<<>>}
    ELSE LET shorter == ItemLists(n - 1)
         IN shorter \cup {Append(l, t) : l \in shorter, t \in KnowledgeTexts}

\* The for loop of processCharacterKnowledge moves to the next item: its id
\* is derived and checkExistingKnowledge is called; or the call resolves.
NextItem(k, outcome) ==
    LET visited == IF k.i = 0 THEN k.visits
                   ELSE Append(k.visits, [call |-> k.call, i |-> k.i,
                                          text |-> k.items[k.i],
                                          outcome |-> outcome])
    IN IF k.i < Len(k.items)
       THEN [k EXCEPT !.pc = "check", !.i = k.i + 1, !.visits = visited,
                      !.item = [id |-> createUniqueUuid(k.items[k.i + 1]),
                                text |-> k.items[k.i + 1]],
                      !.fragments = <<>>, !.f = 0]
       ELSE [k EXCEPT !.pc = "resolved", !.visits = visited]

\* A memory as the store keeps it: with the call and item that created it.
Written(memory, k) ==
    [table |-> memory.table, id |-> memory.id, text |-> memory.text,
     type |-> memory.type, documentId |-> memory.documentId,
     position |-> memory.position, source |-> memory.source,
     call |-> k.call, i |-> k.i]

\* processCharacterKnowledge(items) up to its first await; a call is made
\* when the previous one has settled.
processCharacterKnowledge(items) ==
    /\ kn.pc \in {"idle", "resolved", "rejected"}
    /\ kn.call < MaxIngests
    /\ kn' = NextItem([IdleKnowledge EXCEPT !.call = kn.call + 1,
                                             !.items = items,
                                             !.visits = kn.visits], "none")
    /\ UNCHANGED <<store, gk>>

\* A processCharacterKnowledge call made on its own.
processCharacterKnowledgeCall(items) ==
    /\ processCharacterKnowledge(items)
    /\ UNCHANGED <<modelVars, pluginVars, eventVars, stopping, startVars>>
    /\ UNCHANGED <<composeVars, serviceVars, actionVars, evalVars, auditLog>>

\* await this.checkExistingKnowledge(knowledgeId) resolved: `continue`, or
\* addKnowledge is called and creates the document memory.
knowledgeChecked ==
    /\ kn.pc = "check"
    /\ kn' = IF checkExistingKnowledge(store, kn.item.id)
             THEN NextItem(kn, "skipped")
             ELSE [kn EXCEPT !.pc = "document"]
    /\ UNCHANGED <<store, gk, modelVars, pluginVars, eventVars, stopping>>
    /\ UNCHANGED <<composeVars, serviceVars, actionVars, evalVars, auditLog>>
    /\ UNCHANGED startVars

\* await getMemoryManager("documents").createMemory(documentMemory) resolved;
\* splitChunks is called.
knowledgeDocumentCreated ==
    /\ kn.pc = "document"
    /\ store' = Append(store, Written(DocumentMemory(kn.item), kn))
    /\ kn' = [kn EXCEPT !.pc = "split"]
    /\ UNCHANGED <<gk, modelVars, pluginVars, eventVars, stopping>>
    /\ UNCHANGED <<composeVars, serviceVars, actionVars, evalVars, auditLog>>
    /\ UNCHANGED startVars

\* The fragment loop: the next fragment memory is created, or addKnowledge
\* returns and the item loop moves on.
NextFragment(k) ==
    IF k.f < Len(k.fragments)
    THEN [k EXCEPT !.pc = "fragment"]
    ELSE NextItem(k, "added")

\* await splitChunks(...) resolved.
knowledgeSplit ==
    /\ kn.pc = "split"
    /\ kn' = NextFragment([kn EXCEPT !.fragments = splitChunks(kn.item.text),
                                     !.f = 0])
    /\ UNCHANGED <<store, gk, modelVars, pluginVars, eventVars, stopping>>
    /\ UNCHANGED <<composeVars, serviceVars, actionVars, evalVars, auditLog>>
    /\ UNCHANGED startVars

\* await getMemoryManager("knowledge").createMemory(fragmentMemory) resolved.
knowledgeFragmentCreated ==
    /\ kn.pc = "fragment"
    /\ store' = Append(store,
                    Written(FragmentMemory(kn.item, kn.f,
                                           kn.fragments[kn.f + 1]), kn))
    /\ kn' = NextFragment([kn EXCEPT !.f = kn.f + 1])
    /\ UNCHANGED <<gk, modelVars, pluginVars, eventVars, stopping>>
    /\ UNCHANGED <<composeVars, serviceVars, actionVars, evalVars, auditLog>>
    /\ UNCHANGED startVars

\* A storage call rejected: the catch block logs and handleProcessingError
\* rethrows, so processCharacterKnowledge rejects.
knowledgeStorageFails ==
    /\ kn.pc \in {"check", "document", "fragment"}
    /\ kn' = [kn EXCEPT !.pc = "rejected",
                        !.visits = Append(kn.visits,
                                      [call |-> kn.call, i |-> kn.i,
                                       text |-> kn.items[kn.i],
                                       outcome |-> "failed"])]
    /\ UNCHANGED <<store, gk, modelVars, pluginVars, eventVars, stopping>>
    /\ UNCHANGED <<composeVars, serviceVars, actionVars, evalVars, auditLog>>
    /\ UNCHANGED startVars

IngestNext ==
    \/ /\ kn.pc \in {"idle", "resolved", "rejected"}
       /\ \E items \in ItemLists(MaxItems) : processCharacterKnowledgeCall(items)
    \/ knowledgeChecked
    \/ knowledgeDocumentCreated
    \/ knowledgeSplit
    \/ knowledgeFragmentCreated
    \/ knowledgeStorageFails

-----------------------------------------------------------------------------
(* getKnowledge.  A text is a sequence of characters, or absent.  The      *)
(* similarity search of the memory tables is not part of runtime.ts: it    *)
(* yields some of the memories of the table, in the order they were made.  *)

Whitespace == {" ", "\t", "\n"}

\* message.content.text of the messages getKnowledge is called with.
MessageTexts ==
    { [present |-> FALSE, chars |-> <<>>],
      [present |-> TRUE, chars |-> <<>>],
      [present |-> TRUE, chars |-> <<" ">>],
      [present |-> TRUE, chars |-> <<"\t", " ", "\n">>],
      [present |-> TRUE, chars |-> <<"a">>],
      [present |-> TRUE, chars |-> <<" ", "a", " ">>] }

\* String.prototype.trim
RECURSIVE trim(_)
trim(chars) ==
    IF chars = <<>> THEN <<>>
    ELSE IF chars[1] \in Whitespace THEN trim(Tail(chars))
    ELSE IF chars[Len(chars)] \in Whitespace
         THEN trim(SubSeq(chars, 1, Len(chars) - 1))
    ELSE chars

\* !message?.content?.text
NoText(text) == ~text.present \/ Len(text.chars) = 0

\* A validation that does not trim.
EmptyTextUntrimmed(text) == NoText(text)

\* !message?.content?.text || message?.content?.text.trim().length === 0
EmptyText(text) == NoText(text) \/ Len(trim(text.chars)) = 0

IdleGetKnowledge ==
    [pc |-> "idle", text |-> [present |-> FALSE, chars |-> <<>>],
     accesses |-> <<>>, fragments |-> <<>>, uniqueSources |-> <<>>,
     result |-> <<>>]

\* getMemoryManager(table).getMemoryById(id): the memory, or null (<<>>).
getMemoryById(memories, table, id) ==
    IF MemoryExists(memories, table, id)
    THEN <<memories[CHOOSE w \in 1..Len(memories) :
                        memories[w].table = table /\ memories[w].id = id]>>
    ELSE <<>>

\* The memories of a table at the given places of the store, in store order.
RECURSIVE Matched(_, _)
Matched(memories, places) ==
    IF memories = <<>> THEN <<>>
    ELSE LET front == Matched(SubSeq(memories, 1, Len(memories) - 1), places)
         IN IF Len(memories) \in places
            THEN Append(front, memories[Len(memories)]) ELSE front

\* [...new Set(fragments.map(memory => memory.content.source))]
UniqueSources(fragments) ==
    Dedupe([f \in 1..Len(fragments) |-> fragments[f].source])

\* knowledgeDocuments.filter(memory => memory !== null)
\*                   .map(memory => ({id: memory.id, content: memory.content}))
RECURSIVE KnowledgeItems(_, _)
KnowledgeItems(memories, sources) ==
    IF sources = <<>> THEN <<>>
    ELSE LET found == getMemoryById(memories, "documents", sources[1])
             rest == KnowledgeItems(memories, Tail(sources))
         IN IF found = <<>> THEN rest
            ELSE <<[id |-> found[1].id, text |-> found[1].text]>> \o rest

\* getKnowledge(message) up to its first await: the two validations, then
\* the call of useModel(ModelTypes.TEXT_EMBEDDING, text).
getKnowledgeCall(text) ==
    /\ gk.pc = "idle"
    /\ IF NoText(text) \/ EmptyText(text)
       THEN /\ gk' = [gk EXCEPT !.pc = "returned", !.text = text]
            /\ UNCHANGED um
       ELSE /\ um.pc = "idle"
            /\ gk' = [gk EXCEPT !.pc = "embedding", !.text = text]
            /\ um' = UseModelStart("TEXT_EMBEDDING", "getKnowledge")
    /\ UNCHANGED <<models, modelCalls, store, kn, pluginVars, eventVars, stopping>>
    /\ UNCHANGED <<composeVars, serviceVars, actionVars, evalVars, auditLog>>
    /\ UNCHANGED startVars

\* await this.useModel(...) resolved; searchMemories is called on the
\* knowledge table.
getKnowledgeEmbedded ==
    /\ gk.pc = "embedding"
    /\ um.pc = "returned"
    /\ gk' = [gk EXCEPT !.pc = "search",
                        !.accesses = Append(@, "searchMemories")]
    /\ UNCHANGED <<modelVars, store, kn, pluginVars, eventVars, stopping>>
    /\ UNCHANGED <<composeVars, serviceVars, actionVars, evalVars, auditLog>>
    /\ UNCHANGED startVars

\* await this.useModel(...) rejected: getKnowledge rejects.
getKnowledgeEmbeddingFails ==
    /\ gk.pc = "embedding"
    /\ um.pc = "rejected"
    /\ gk' = [gk EXCEPT !.pc = "rejected"]
    /\ UNCHANGED <<modelVars, store, kn, pluginVars, eventVars, stopping>>
    /\ UNCHANGED <<composeVars, serviceVars, actionVars, evalVars, auditLog>>
    /\ UNCHANGED startVars

\* await searchMemories(...) resolved with the memories at `places`; the
\* sources are made unique and getMemoryById is called for each.
getKnowledgeSearched(places) ==
    /\ gk.pc = "search"
    /\ \A w \in places : store[w].table = "knowledge"
    /\ LET fragments == Matched(store, places)
           sources == UniqueSources(fragments)
       IN gk' = [gk EXCEPT !.pc = "documents", !.fragments = fragments,
                           !.uniqueSources = sources,
                           !.accesses = @ \o [x \in 1..Len(sources)
                                                 |-> "getMemoryById"]]
    /\ UNCHANGED <<modelVars, store, kn, pluginVars, eventVars, stopping>>
    /\ UNCHANGED <<composeVars, serviceVars, actionVars, evalVars, auditLog>>
    /\ UNCHANGED startVars

\* await Promise.all(...) resolved; the documents found are returned.
getKnowledgeDocuments ==
    /\ gk.pc = "documents"
    /\ gk' = [gk EXCEPT !.pc = "returned",
                        !.result = KnowledgeItems(store, gk.uniqueSources)]
    /\ UNCHANGED <<modelVars, store, kn, pluginVars, eventVars, stopping>>
    /\ UNCHANGED <<composeVars, serviceVars, actionVars, evalVars, auditLog>>
    /\ UNCHANGED startVars

\* One ingestion of at most one item, an embedding model or none, then one
\* getKnowledge call.
KnowledgeNext ==
    \/ /\ kn.call = 0 /\ gk.pc = "idle"
       /\ \E items \in ItemLists(1) : processCharacterKnowledgeCall(items)
    \/ knowledgeChecked
    \/ knowledgeDocumentCreated
    \/ knowledgeSplit
    \/ knowledgeFragmentCreated
    \/ /\ modelCalls = <<>> /\ gk.pc = "idle"
       /\ \E handler \in ModelHandlers : registerModel("TEXT_EMBEDDING", handler)
    \/ /\ kn.pc \in {"idle", "resolved"}
       /\ \E text \in MessageTexts : getKnowledgeCall(text)
    \/ useModelHandlerReturns
    \/ useModelHandlerThrows
    \/ useModelLogged
    \/ getKnowledgeEmbedded
    \/ getKnowledgeEmbeddingFails
    \/ \E places \in SUBSET (1..Len(store)) : getKnowledgeSearched(places)
    \/ getKnowledgeDocuments

-----------------------------------------------------------------------------
(* Events.  emitEvent has no await: it is one step.  A handler returns,    *)
(* returns a promise (which emitEvent drops), or throws.                   *)

\* Most registerEvent calls in one behaviour.
MaxEventHandlers == 3
\* Most emitEvent calls in one behaviour.
MaxEmits == 1

EventNames == {"message", "mention"}

EventHandlers ==
    { [name |-> "onSync", kind |-> "sync"],
      [name |-> "onAsync", kind |-> "async"],
      [name |-> "onThrow", kind |-> "throws"] }

\* The `event` argument of emitEvent: a name, or an array of names; "none"
\* is a name nothing is registered for.
EmitArgs ==
    LET names == EventNames \cup {"none"}
    IN {[array |-> FALSE, names |-> <<n>>] : n \in names}
       \cup {[array |-> TRUE, names |-> <<>>]}
       \cup {[array |-> TRUE, names |-> <<n>>] : n \in names}
       \cup {[array |-> TRUE, names |-> <<n, o>>] : n \in names, o \in names}

\* registerEvent: the list for the event is created if absent, the handler
\* is pushed at its end.
registerEventPush(map, event, handler) ==
    MapSet(map, event, Append(HandlersOf(map, event), handler))

\* The handler calls emitEvent would make if no handler threw: for each name
\* in turn, each handler of this.events.get(name) in turn.
RECURSIVE HandlerCalls(_, _)
HandlerCalls(map, names) ==
    IF names = <<>> THEN <<>>
    ELSE [h \in 1..Len(HandlersOf(map, names[1])) |->
            [event |-> names[1], handler |-> HandlersOf(map, names[1])[h]]]
         \o HandlerCalls(map, Tail(names))

\* An emitEvent that goes on after a handler threw.
InvokedIsolated(handlerCalls) == handlerCalls

\* The calls emitEvent makes: handler(params) one after the other, up to and
\* including the first that throws.
RECURSIVE Invoked(_)
Invoked(handlerCalls) ==
    IF handlerCalls = <<>> THEN <<>>
    ELSE IF handlerCalls[1].handler.kind = "throws" THEN <<handlerCalls[1]>>
    ELSE <<handlerCalls[1]>> \o Invoked(Tail(handlerCalls))

\* The promises of the invoked handlers that returned one.
Promises(made) ==
    {c \in 1..Len(made) : made[c].handler.kind = "async"}

NoEmit ==
    [count |-> 0, event |-> [array |-> TRUE, names |-> <<>>],
     invoked |-> <<>>, outcome |-> "none", thrownBy |-> 0,
     pending |-> {}, pendingAtReturn |-> {}, registeredBefore |-> 0]

registerEvent(event, handler) ==
    /\ Len(eventCalls) < MaxEventHandlers
    /\ events' = registerEventPush(events, event, handler)
    /\ eventCalls' = Append(eventCalls, [key |-> event, handler |-> handler])
    /\ UNCHANGED <<emitted, knowledgeVars, modelVars, pluginVars, stopping>>
    /\ UNCHANGED <<composeVars, serviceVars, actionVars, evalVars, auditLog>>
    /\ UNCHANGED startVars

emitEvent(event) ==
    /\ emitted.count < MaxEmits
    /\ LET made == Invoked(HandlerCalls(events, event.names))
           threw == made # <<>> /\ made[Len(made)].handler.kind = "throws"
       IN emitted' = [count |-> emitted.count + 1, event |-> event,
                      invoked |-> made,
                      outcome |-> IF threw THEN "threw" ELSE "returned",
                      thrownBy |-> IF threw THEN Len(made) ELSE 0,
                      pending |-> Promises(made),
                      pendingAtReturn |-> Promises(made),
                      registeredBefore |-> Len(eventCalls)]
    /\ UNCHANGED <<events, eventCalls, knowledgeVars, modelVars, pluginVars, stopping>>
    /\ UNCHANGED <<composeVars, serviceVars, actionVars, evalVars, auditLog>>
    /\ UNCHANGED startVars

\* The promise an async handler returned settles, after emitEvent is over.
eventHandlerSettles(c) ==
    /\ c \in emitted.pending
    /\ emitted' = [emitted EXCEPT !.pending = @ \ {c}]
    /\ UNCHANGED <<events, eventCalls, knowledgeVars, modelVars, pluginVars, stopping>>
    /\ UNCHANGED <<composeVars, serviceVars, actionVars, evalVars, auditLog>>
    /\ UNCHANGED startVars

EventsNext ==
    \/ \E event \in EventNames, handler \in EventHandlers :
            registerEvent(event, handler)
    \/ \E event \in EmitArgs : emitEvent(event)
    \/ \E c \in emitted.pending : eventHandlerSettles(c)

-----------------------------------------------------------------------------
(* stop().  The for..of loop walks this.services, a Map, in insertion order *)
(* of its keys and sees entries added while it runs; it is cut at           *)
(* `await service.stop()`.                                                  *)

IdleStop ==
    [pc |-> "idle", k |-> 0, called |-> <<>>, completed |-> 0,
     thrownBy |-> 0, registeredAtCall |-> 0]

\* The iterator moves on: service.stop() of the next entry of the Map is
\* called, or the loop is over and stop() resolves.
StopNextService(st, map) ==
    IF st.k < Len(map)
    THEN [st EXCEPT !.pc = "awaiting", !.k = st.k + 1,
                    !.called = Append(st.called, map[st.k + 1])]
    ELSE [st EXCEPT !.pc = "resolved"]

\* A stop() that logs the failure of a service and goes on.
AfterStopThrowsSwallowed(st, map) ==
    StopNextService([st EXCEPT !.thrownBy = st.k], map)

\* `await service.stop()` rejected: nothing catches, stop() rejects.
AfterStopThrows(st, map) ==
    [st EXCEPT !.pc = "rejected", !.thrownBy = st.k]

stopCall ==
    /\ stopping.pc = "idle"
    /\ stopping' = StopNextService(
                        [IdleStop EXCEPT !.registeredAtCall = Len(services)],
                        services)
    /\ UNCHANGED <<knowledgeVars, modelVars, pluginVars, eventVars>>
    /\ UNCHANGED <<composeVars, serviceVars, actionVars, evalVars, auditLog>>
    /\ UNCHANGED startVars

\* `await service.stop()` resolved.
stopServiceReturns ==
    /\ stopping.pc = "awaiting"
    /\ stopping' = StopNextService(
                        [stopping EXCEPT !.completed = stopping.k], services)
    /\ UNCHANGED <<knowledgeVars, modelVars, pluginVars, eventVars>>
    /\ UNCHANGED <<composeVars, serviceVars, actionVars, evalVars, auditLog>>
    /\ UNCHANGED startVars

stopServiceThrows ==
    /\ stopping.pc = "awaiting"
    /\ stopping' = AfterStopThrows(stopping, services)
    /\ UNCHANGED <<knowledgeVars, modelVars, pluginVars, eventVars>>
    /\ UNCHANGED <<composeVars, serviceVars, actionVars, evalVars, auditLog>>
    /\ UNCHANGED startVars

StopNext ==
    \/ \E s \in ServicePool : registerServiceCall(s)
    \/ \E r \in 1..Len(regs) : registerServiceStarted(r)
    \/ \E r \in 1..Len(regs) : registerServiceFailed(r)
    \/ stopCall
    \/ stopServiceReturns
    \/ stopServiceThrows

-----------------------------------------------------------------------------
(* Settings.  A JavaScript value is a type and a literal; a source that    *)
(* does not define a key yields undefined for it.                           *)

\* Most setSetting calls in one behaviour.
MaxSets == 2

Undefined == [type |-> "undefined", val |-> ""]

Null == [type |-> "null", val |-> ""]

True == [type |-> "boolean", val |-> "true"]

False == [type |-> "boolean", val |-> "false"]

Str(s) == [type |-> "string", val |-> s]

\* ToBoolean of the values above.
Truthy(v) ==
    \/ v.type = "string" /\ v.val # ""
    \/ v = True

\* a || b
Or(a, b) == IF Truthy(a) THEN a ELSE b

SettingKeys == {"K", "E"}

\* The values setSetting is called with.
SettingValues == {Str("x"), Str("true"), Str("false"), Str(""), False, Null}

\* An object that defines none of the keys.
NoKeys == [key \in SettingKeys |-> Undefined]

\* The `settings` object imported from ./environment: the process-wide
\* configuration.  It defines E and does not define K.
settings == [NoKeys EXCEPT !["E"] = Str("env")]

\* A character: secrets, settings, settings.secrets (nested), the plugin
\* names it lists (the field may be absent) and its knowledge items.
MkCharacter(secrets, own, nested, hasPlugins, pluginNames, knowledge) ==
    [secrets |-> secrets, settings |-> own, nested |-> nested,
     hasPlugins |-> hasPlugins, plugins |-> pluginNames,
     knowledge |-> knowledge]

DefaultCharacter == MkCharacter(NoKeys, NoKeys, NoKeys, FALSE, <<>>, <<>>)

\* Characters whose file holds settings.secrets.
SettingCharacters ==
    { DefaultCharacter,
      MkCharacter(NoKeys, NoKeys, [NoKeys EXCEPT !["K"] = Str("n")],
                  FALSE, <<>>, <<>>),
      MkCharacter(NoKeys, [NoKeys EXCEPT !["K"] = Str("s")],
                  [NoKeys EXCEPT !["K"] = Str("false")], FALSE, <<>>, <<>>) }

\* No getSetting call was made.
NoSetting ==
    [sets |-> 0, called |-> FALSE, key |-> "K", from |-> DefaultCharacter,
     result |-> Undefined]

\* A resolution that stops at the first source that defines the key.
getSettingFirstDefined(c, key) ==
    LET sources == <<c.secrets[key], c.settings[key], c.nested[key],
                     settings[key]>>
        defining == {i \in 1..4 : sources[i] # Undefined}
        value == IF defining = {} THEN Undefined
                 ELSE sources[CHOOSE i \in defining :
                                \A j \in defining : i <= j]
    IN IF value = Str("true") THEN True
       ELSE IF value = Str("false") THEN False
       ELSE IF Truthy(value) THEN value ELSE Null

\* getSetting(key): the || chain over the four sources, then the coercion.
getSetting(c, key) ==
    LET value == Or(Or(Or(c.secrets[key], c.settings[key]), c.nested[key]),
                    settings[key])
    IN IF value = Str("true") THEN True
       ELSE IF value = Str("false") THEN False
       ELSE Or(value, Null)

\* setSetting(key, value, secret)
setSetting(key, value, secret) ==
    /\ setting.sets < MaxSets
    /\ character' = IF secret
                    THEN [character EXCEPT !.secrets[key] = value]
                    ELSE [character EXCEPT !.settings[key] = value]
    /\ setting' = [setting EXCEPT !.sets = @ + 1]
    /\ UNCHANGED <<knowledgeVars, modelVars, pluginVars, eventVars, stopping, boot, twitter>>
    /\ UNCHANGED <<composeVars, serviceVars, actionVars, evalVars, auditLog>>

\* getSetting(key), with the character as it is when the call is made.
getSettingCall(key) ==
    /\ setting' = [setting EXCEPT !.called = TRUE, !.key = key,
                                  !.from = character,
                                  !.result = getSetting(character, key)]
    /\ UNCHANGED <<knowledgeVars, modelVars, pluginVars, eventVars, stopping>>
    /\ UNCHANGED <<character, boot, twitter>>
    /\ UNCHANGED <<composeVars, serviceVars, actionVars, evalVars, auditLog>>

\* The initialize() call has not been made.  step is the storage adapter
\* call awaited, room the position of ensureRoomExists, queue the plugins the
\* registration loops have still to look at, names registeredPluginNames,
\* launched the registerPlugin calls made, trace the steps started, in order.
IdleInitialize ==
    [pc |-> "idle", step |-> "none", room |-> "none", phase |-> "none",
     queue |-> <<>>, names |-> {}, launched |-> <<>>, error |-> "none",
     trace |-> <<>>]

-----------------------------------------------------------------------------
(* The constructor, the storage adapter and registerPlugin.  registerPlugin *)
(* runs without await up to `await Promise.all(...)`: by then every         *)
(* registerService call of the plugin has run up to its own await.  It is   *)
(* cut there and at `await plugin.init(...)`.                               *)

\* Most registerPlugin calls in one behaviour.
MaxInstalls == 2
\* Most adapters supplied to one runtime.
MaxSupplied == 3

\* this.adapter when nothing is bound (undefined).
NoAdapter == "undefined"

Adapters == {"X", "Y"}

\* A plugin that has nothing but a name.
EmptyPlugin ==
    [null |-> FALSE, name |-> "", hasAdapter |-> FALSE, adapter |-> NoAdapter,
     actions |-> <<>>, evaluators |-> <<>>, providers |-> <<>>,
     models |-> <<>>, routes |-> <<>>, events |-> <<>>,
     hasServices |-> FALSE, services |-> <<>>,
     hasInit |-> FALSE, config |-> ""]

\* registerPlugin(undefined)
NullPlugin == [null |-> TRUE] @@ EmptyPlugin

PlugA ==
    [name |-> "twitter", hasAdapter |-> TRUE, adapter |-> "P",
     actions |-> <<SendMessage>>, evaluators |-> <<Reflection>>,
     providers |-> <<P1>>,
     models |-> <<[key |-> "TEXT_SMALL", handler |-> "h1"]>>,
     routes |-> <<"/status">>,
     events |-> <<[key |-> "message",
                   handler |-> [name |-> "onSync", kind |-> "sync"]]>>,
     hasServices |-> TRUE,
     services |-> <<[name |-> "TwitterService", serviceType |-> "twitter"],
                    [name |-> "BrowserService", serviceType |-> "browser"]>>,
     hasInit |-> TRUE, config |-> "configA"] @@ EmptyPlugin

\* A plugin whose services are a second class of type twitter and a class
\* without serviceType.
PlugB ==
    [name |-> "mirror", hasServices |-> TRUE,
     services |-> <<[name |-> "TwitterMirror", serviceType |-> "twitter"],
                    [name |-> "Untyped", serviceType |-> ""]>>,
     hasInit |-> TRUE, config |-> "configB"] @@ EmptyPlugin

\* Another plugin named twitter, without services.
PlugC ==
    [name |-> "twitter", hasAdapter |-> TRUE, adapter |-> "Q",
     actions |-> <<Reply>>, hasInit |-> TRUE, config |-> "configC"]
    @@ EmptyPlugin

\* A plugin without init.
PlugD ==
    [name |-> "plain", hasServices |-> TRUE,
     services |-> <<[name |-> "BrowserService", serviceType |-> "browser"]>>]
    @@ EmptyPlugin

PluginPool == {PlugA, PlugB, PlugC, PlugD}

\* The plugin the constructor adds unless ignoreBootstrap is set; it is not
\* part of runtime.ts and only its place in the list is modelled.
bootstrapPlugin == [name |-> "bootstrap"] @@ EmptyPlugin

\* The options of the constructor that bear on the adapter and the plugins.
ConstructorOptions ==
    [databaseAdapter : {NoAdapter, "X"}, adapter : {NoAdapter, "Y"},
     plugins : {<<>>, <<PlugA>>}, ignoreBootstrap : BOOLEAN,
     character : {DefaultCharacter}]

\* Options without adapter.
PluginOptions == {o \in ConstructorOptions :
                    o.databaseAdapter = NoAdapter /\ o.adapter = NoAdapter}

\* registerDatabaseAdapter: this.adapter after the call.
Bind(current, a) == IF current # NoAdapter THEN current ELSE a

\* The adapters among the values given, in order.
Given(values) == SelectSeq(values, LAMBDA a : a # NoAdapter)

\* The constructor body on a runtime whose fields hold their initial values.
construct(opts) ==
    /\ ~constructed
    /\ installs = <<>> /\ supplied = <<>> /\ regs = <<>>
    /\ constructed' = TRUE
    /\ LET registered == IF opts.databaseAdapter # NoAdapter
                         THEN Bind(adapter, opts.databaseAdapter)
                         ELSE adapter
       IN adapter' = opts.adapter
    /\ supplied' = Given(<<opts.databaseAdapter, opts.adapter>>)
    /\ plugins' = IF opts.ignoreBootstrap THEN opts.plugins
                  ELSE Append(opts.plugins, bootstrapPlugin)
    /\ character' = opts.character
    /\ UNCHANGED <<routes, installs, knowledgeVars, modelVars, eventVars, stopping>>
    /\ UNCHANGED <<composeVars, serviceVars, actionVars, evalVars, auditLog>>
    /\ UNCHANGED <<setting, boot, twitter>>

registerDatabaseAdapter(a) ==
    /\ Len(supplied) < MaxSupplied
    /\ adapter' = Bind(adapter, a)
    /\ supplied' = Append(supplied, a)
    /\ UNCHANGED <<plugins, routes, installs, constructed>>
    /\ UNCHANGED <<knowledgeVars, modelVars, eventVars, stopping>>
    /\ UNCHANGED <<composeVars, serviceVars, actionVars, evalVars, auditLog>>
    /\ UNCHANGED startVars

\* A plugin list that takes every plugin registered.
PluginsPushAlways(list, plugin) == Append(list, plugin)

\* this.plugins after registerPlugin: the plugin is pushed if no plugin of
\* the list has its name.
PluginsPush(list, plugin) ==
    IF \E i \in 1..Len(list) : list[i].name = plugin.name
    THEN list ELSE Append(list, plugin)

\* registerModel for each entry of plugin.models, in order.
RECURSIVE RegisterModels(_, _)
RegisterModels(map, entries) ==
    IF entries = <<>> THEN map
    ELSE RegisterModels(registerModelLast(map, entries[1].key,
                                          entries[1].handler), Tail(entries))

\* registerEvent for each handler of each entry of plugin.events, in order.
RECURSIVE RegisterEvents(_, _)
RegisterEvents(map, entries) ==
    IF entries = <<>> THEN map
    ELSE RegisterEvents(registerEventPush(map, entries[1].key,
                                          entries[1].handler), Tail(entries))

\* registerService(service) up to its await.
ServiceCall(map, s) ==
    [service |-> s,
     pc |-> IF s.serviceType = "" THEN "no_type"
            ELSE IF MapHas(map, s.serviceType) THEN "skipped"
            ELSE "starting"]

\* A wait that is over as soon as one of the registrations has settled.
AnySettled(rs, launched) ==
    launched = <<>>
    \/ \E l \in 1..Len(launched) :
            rs[launched[l]].pc \in {"no_type", "skipped", "registered"}

\* Promise.all resolves: every registerService promise has resolved.
AllSettled(rs, launched) ==
    \A l \in 1..Len(launched) :
        rs[launched[l]].pc \in {"no_type", "skipped", "registered"}

\* plugin.init(plugin.config, this) is called.
InitCalled(install) ==
    [install EXCEPT !.pc = "init", !.initCalls = @ + 1,
                    !.initConfig = install.plugin.config]

\* After the services: init is called if the plugin has one, else
\* registerPlugin resolves.
AfterServices(install) ==
    IF install.plugin.hasInit THEN InitCalled(install)
    ELSE [install EXCEPT !.pc = "resolved"]

\* No step of the call has thrown.
NotThrown == [step |-> "none", of |-> 0]

\* A rejection that is caught inside registerPlugin: the call resolves.
RejectionSwallowed(install, error) == [install EXCEPT !.pc = "resolved"]

\* An awaited step rejects: registerPlugin has no try, the call rejects with
\* the error of the step, and no statement of it runs afterwards.
Rejection(install, error) ==
    [install EXCEPT !.pc = "rejected", !.error = error]

\* registerPlugin(plugin) up to its first await.
registerPlugin(plugin) ==
    /\ Len(installs) < MaxInstalls
    /\ LET launched == [j \in 1..Len(plugin.services) |-> Len(regs) + j]
           install == [plugin |-> plugin, pc |-> "services",
                       launched |-> launched, initCalls |-> 0,
                       initConfig |-> "", initReturned |-> FALSE,
                       error |-> NotThrown]
       IN /\ installs' = Append(installs,
                IF plugin.null THEN [install EXCEPT !.pc = "resolved"]
                ELSE IF plugin.hasServices THEN install
                ELSE AfterServices(install))
          /\ regs' = regs \o [j \in 1..Len(plugin.services) |->
                                ServiceCall(services, plugin.services[j])]
    /\ plugins' = IF plugin.null THEN plugins ELSE PluginsPush(plugins, plugin)
    /\ adapter' = IF plugin.hasAdapter THEN Bind(adapter, plugin.adapter)
                  ELSE adapter
    /\ supplied' = IF plugin.hasAdapter THEN Append(supplied, plugin.adapter)
                   ELSE supplied
    /\ actions' = actions \o plugin.actions
    /\ evaluators' = evaluators \o plugin.evaluators
    /\ providers' = providers \o plugin.providers
    /\ models' = RegisterModels(models, plugin.models)
    /\ modelCalls' = modelCalls \o plugin.models
    /\ routes' = routes \o plugin.routes
    /\ events' = RegisterEvents(events, plugin.events)
    /\ eventCalls' = eventCalls \o plugin.events
    /\ UNCHANGED <<services, constructed, um, emitted, knowledgeVars, stopping>>
    /\ UNCHANGED <<stateCache, calls, lastCall, nCalls, pa, invoked, resolved>>
    /\ UNCHANGED <<ev, auditLog>>

\* A registerPlugin call made on its own.
registerPluginCall(plugin) ==
    /\ registerPlugin(plugin)
    /\ UNCHANGED startVars

\* await Promise.all(...) resolved.
registerPluginServicesDone(n) ==
    /\ installs[n].pc = "services"
    /\ AllSettled(regs, installs[n].launched)
    /\ installs' = [installs EXCEPT ![n] = AfterServices(installs[n])]
    /\ UNCHANGED <<plugins, routes, adapter, supplied, constructed>>
    /\ UNCHANGED <<knowledgeVars, modelVars, eventVars, stopping>>
    /\ UNCHANGED <<composeVars, serviceVars, actionVars, evalVars, auditLog>>
    /\ UNCHANGED startVars

\* await Promise.all(...) rejected: a service start failed.
registerPluginServiceFails(n) ==
    /\ installs[n].pc = "services"
    /\ \E l \in 1..Len(installs[n].launched) :
        /\ regs[installs[n].launched[l]].pc = "failed"
        /\ installs' = [installs EXCEPT ![n] =
                Rejection(@, [step |-> "service",
                              of |-> installs[n].launched[l]])]
    /\ UNCHANGED <<plugins, routes, adapter, supplied, constructed>>
    /\ UNCHANGED <<knowledgeVars, modelVars, eventVars, stopping>>
    /\ UNCHANGED <<composeVars, serviceVars, actionVars, evalVars, auditLog>>
    /\ UNCHANGED startVars

\* await plugin.init(...) resolved: registerPlugin resolves.
registerPluginInitReturns(n) ==
    /\ installs[n].pc = "init"
    /\ installs' = [installs EXCEPT ![n].pc = "resolved",
                                    ![n].initReturned = TRUE]
    /\ UNCHANGED <<plugins, routes, adapter, supplied, constructed>>
    /\ UNCHANGED <<knowledgeVars, modelVars, eventVars, stopping>>
    /\ UNCHANGED <<composeVars, serviceVars, actionVars, evalVars, auditLog>>
    /\ UNCHANGED startVars

\* await plugin.init(...) rejected: registerPlugin rejects.
registerPluginInitThrows(n) ==
    /\ installs[n].pc = "init"
    /\ installs' = [installs EXCEPT ![n] =
            Rejection(@, [step |-> "init", of |-> 0])]
    /\ UNCHANGED <<plugins, routes, adapter, supplied, constructed>>
    /\ UNCHANGED <<knowledgeVars, modelVars, eventVars, stopping>>
    /\ UNCHANGED <<composeVars, serviceVars, actionVars, evalVars, auditLog>>
    /\ UNCHANGED startVars

PluginNext ==
    \/ \E opts \in PluginOptions : construct(opts)
    \/ \E plugin \in PluginPool \cup {NullPlugin} : registerPluginCall(plugin)
    \/ \E r \in 1..Len(regs) : registerServiceStarted(r)
    \/ \E r \in 1..Len(regs) : registerServiceFailed(r)
    \/ \E n \in 1..Len(installs) : registerPluginServicesDone(n)
    \/ \E n \in 1..Len(installs) : registerPluginServiceFails(n)
    \/ \E n \in 1..Len(installs) : registerPluginInitReturns(n)
    \/ \E n \in 1..Len(installs) : registerPluginInitThrows(n)

\* The constructor with any options, registerDatabaseAdapter, and the
\* registration of a plugin that brings an adapter.
AdapterNext ==
    \/ \E opts \in ConstructorOptions : construct(opts)
    \/ \E a \in Adapters : registerDatabaseAdapter(a)
    \/ /\ Len(supplied) < MaxSupplied
       /\ \E plugin \in {PlugC, NullPlugin} : registerPluginCall(plugin)
    \/ \E n \in 1..Len(installs) : registerPluginInitReturns(n)
    \/ \E n \in 1..Len(installs) : registerPluginInitThrows(n)

-----------------------------------------------------------------------------
(* processActions on names with more than one underscore.                   *)

senddirectmessage == <<"s", "e", "n", "d", "d", "i", "r", "e", "c", "t", "m", "e", "s", "s", "a", "g", "e">>

send_direct_message == <<"s", "e", "n", "d", "_", "d", "i", "r", "e", "c", "t", "_", "m", "e", "s", "s", "a", "g", "e">>

Send_Direct == <<"S", "e", "n", "d", "_", "D", "i", "r", "e", "c", "t">>

DIRECT == <<"D", "I", "R", "E", "C", "T">>

DM_THE_USER == <<"D", "M", "_", "T", "H", "E", "_", "U", "S", "E", "R">>

dmtheuser == <<"d", "m", "t", "h", "e", "u", "s", "e", "r">>

\* An action whose only alias holds two underscores.
Direct == MkAction(DIRECT, TRUE, <<DM_THE_USER>>, TRUE)

UnderscoreActions == {SendDirectMessage, Direct, Mute}

UnderscoreResponses ==
    { MkResponse(TRUE, <<senddirectmessage>>),
      MkResponse(TRUE, <<send_direct_message>>),
      MkResponse(TRUE, <<Send_Direct>>),
      MkResponse(TRUE, <<dmtheuser>>),
      MkResponse(TRUE, <<dmtheuser, senddirectmessage>>) }

NormalizeNext ==
    \/ \E action \in UnderscoreActions : registerAction(action)
    \/ /\ pa.pc = "idle"
       /\ \E response \in UnderscoreResponses : processActionsCall(<<response>>)
    \/ processActionsDispatch
    \/ processActionsHandlerReturns
    \/ processActionsHandlerThrows
    \/ processActionsLogged

-----------------------------------------------------------------------------
(* A runtime built for a character, and its settings.                       *)

\* The options of a runtime built for a character, without plugins.
SettingOptions ==
    [databaseAdapter : {NoAdapter}, adapter : {NoAdapter}, plugins : {<<>>},
     ignoreBootstrap : {TRUE}, character : SettingCharacters]

SettingsNext ==
    \/ /\ setting = NoSetting
       /\ \E opts \in SettingOptions : construct(opts)
    \/ \E key \in SettingKeys, value \in SettingValues, secret \in BOOLEAN :
            setSetting(key, value, secret)
    \/ \E key \in SettingKeys : getSettingCall(key)

-----------------------------------------------------------------------------
(* initialize().  It is cut at its awaits: the calls of the storage adapter, *)
(* handlePluginImporting, the Promise.all over ensureRoomExists and the      *)
(* registerPlugin calls, processCharacterKnowledge and, inside               *)
(* ensureEmbeddingDimension, useModel.  The two registration loops run       *)
(* without await; they are walked one plugin at a time while nothing else    *)
(* of the runtime moves.  handlePluginImporting is not part of runtime.ts:   *)
(* it resolves to the plugins the character names, or rejects.               *)

\* A knowledge item of the character: a text, or an object naming a file.
TextItem(text) == [isString |-> TRUE, text |-> text]

FileItem == [isString |-> FALSE, text |-> "file"]

\* this.character.knowledge.filter((item) => typeof item === "string")
StringKnowledge(knowledge) ==
    LET IsString(item) == item.isString
        kept == SelectSeq(knowledge, IsString)
    IN [i \in 1..Len(kept) |-> kept[i].text]

\* handlePluginImporting(names): the plugin exported under each name.
handlePluginImporting(names) ==
    [i \in 1..Len(names) |->
        IF names[i] = "plain" THEN PlugD
        ELSE IF names[i] = "mirror" THEN PlugB
        ELSE NullPlugin]

\* embedding.length of what a TEXT_EMBEDDING handler returned: handler h2
\* returns an empty embedding.
EmbeddingLength(response) == IF response.from = "h2" THEN 0 ELSE 3

\* The characters a runtime is started for.
InitCharacters ==
    { DefaultCharacter,
      MkCharacter(NoKeys, NoKeys, NoKeys, TRUE, <<"plain">>,
                  <<TextItem("d"), FileItem>>),
      MkCharacter(NoKeys, NoKeys, NoKeys, TRUE, <<>>, <<TextItem("abc")>>),
      MkCharacter(NoKeys, NoKeys, NoKeys, FALSE, <<>>, <<FileItem>>) }

InitOptions ==
    [databaseAdapter : {NoAdapter}, adapter : {NoAdapter, "Y"},
     plugins : {<<>>, <<PlugD>>, <<PlugB>>}, ignoreBootstrap : {TRUE},
     character : InitCharacters]

\* The call throws: the catch blocks log and rethrow.
Rejected(b, step) ==
    [b EXCEPT !.pc = "rejected", !.error = step,
              !.trace = Append(@, "rejected")]

\* The storage adapter call `step` is made and awaited.
AdapterCall(b, step) ==
    [b EXCEPT !.pc = "adapter", !.step = step, !.trace = Append(@, step)]

\* initialize() up to its first await: this.getDatabaseAdapter().init();
\* without adapter the call on undefined throws inside the try block.
initializeCall ==
    /\ boot.pc = "idle"
    /\ constructed
    /\ boot' = IF adapter = NoAdapter
               THEN Rejected([boot EXCEPT !.trace = <<"init">>], "init")
               ELSE AdapterCall(boot, "init")
    /\ UNCHANGED <<character, setting, twitter>>
    /\ UNCHANGED <<knowledgeVars, modelVars, pluginVars, eventVars, stopping>>
    /\ UNCHANGED <<composeVars, serviceVars, actionVars, evalVars, auditLog>>

\* What follows an adapter call that resolved, where that is another adapter
\* call, a throw or the end: init, ensureAgentExists, getEntityById with no
\* entity, createEntity with a falsy result (`if (!created) throw`),
\* getParticipantsForRoom without the agent, addParticipant with a falsy
\* result (`if (!added) throw`), and ensureEmbeddingDimension.
AfterAdapterCall(b, result) ==
    IF b.step = "init" THEN AdapterCall(b, "ensureAgentExists")
    ELSE IF b.step = "ensureAgentExists" THEN AdapterCall(b, "getEntityById")
    ELSE IF b.step = "getEntityById" THEN AdapterCall(b, "createEntity")
    ELSE IF b.step = "getParticipantsForRoom" THEN AdapterCall(b, "addParticipant")
    ELSE IF b.step = "ensureEmbeddingDimension" THEN [b EXCEPT !.pc = "resolved"]
    ELSE Rejected(b, b.step)

\* The awaited adapter call resolved and the next statement is one of the
\* above; result is the truth value of what it resolved to.
initializeAdapterReturns(result) ==
    /\ boot.pc = "adapter"
    /\ boot.step \in {"getEntityById", "createEntity",
                      "getParticipantsForRoom", "addParticipant"} => ~result
    /\ boot' = AfterAdapterCall(boot, result)
    /\ UNCHANGED <<character, setting, twitter>>
    /\ UNCHANGED <<knowledgeVars, modelVars, pluginVars, eventVars, stopping>>
    /\ UNCHANGED <<composeVars, serviceVars, actionVars, evalVars, auditLog>>

\* The awaited adapter call rejected.
initializeAdapterFails ==
    /\ boot.pc = "adapter"
    /\ boot' = Rejected(boot, boot.step)
    /\ UNCHANGED <<character, setting, twitter>>
    /\ UNCHANGED <<knowledgeVars, modelVars, pluginVars, eventVars, stopping>>
    /\ UNCHANGED <<composeVars, serviceVars, actionVars, evalVars, auditLog>>

\* The agent entity exists (getEntityById found it, or createEntity made
\* it): `if (this.character.plugins)` awaits handlePluginImporting, else the
\* loop over [...this.plugins] begins.
initializeEntityReady ==
    /\ boot.pc = "adapter"
    /\ boot.step \in {"getEntityById", "createEntity"}
    /\ boot' = IF character.hasPlugins
               THEN [boot EXCEPT !.pc = "importing",
                                 !.trace = Append(@, "handlePluginImporting")]
               ELSE [boot EXCEPT !.pc = "launching", !.phase = "constructor",
                                 !.queue = plugins]
    /\ UNCHANGED <<character, setting, twitter>>
    /\ UNCHANGED <<knowledgeVars, modelVars, pluginVars, eventVars, stopping>>
    /\ UNCHANGED <<composeVars, serviceVars, actionVars, evalVars, auditLog>>

\* await handlePluginImporting(...) resolved: the loop over characterPlugins
\* begins.
initializeImported ==
    /\ boot.pc = "importing"
    /\ boot' = [boot EXCEPT !.pc = "launching", !.phase = "character",
                            !.queue = handlePluginImporting(character.plugins)]
    /\ UNCHANGED <<character, setting, twitter>>
    /\ UNCHANGED <<knowledgeVars, modelVars, pluginVars, eventVars, stopping>>
    /\ UNCHANGED <<composeVars, serviceVars, actionVars, evalVars, auditLog>>

\* await handlePluginImporting(...) rejected; it is outside the try blocks.
initializeImportFails ==
    /\ boot.pc = "importing"
    /\ boot' = Rejected(boot, "handlePluginImporting")
    /\ UNCHANGED <<character, setting, twitter>>
    /\ UNCHANGED <<knowledgeVars, modelVars, pluginVars, eventVars, stopping>>
    /\ UNCHANGED <<composeVars, serviceVars, actionVars, evalVars, auditLog>>

\* `if (plugin && !registeredPluginNames.has(plugin.name))`
ToRegister(plugin, names) == ~plugin.null /\ plugin.name \notin names

\* One pass of a registration loop: the plugin is skipped, or its name is
\* added and this.registerPlugin(plugin) is called and its promise pushed.
initializeLaunch ==
    /\ boot.pc = "launching"
    /\ boot.queue # <<>>
    /\ LET plugin == Head(boot.queue)
       IN IF ToRegister(plugin, boot.names)
          THEN /\ registerPlugin(plugin)
               /\ boot' = [boot EXCEPT
                            !.queue = Tail(@),
                            !.names = @ \cup {plugin.name},
                            !.launched = Append(@, Len(installs) + 1),
                            !.trace = Append(@, "registerPlugin")]
          ELSE /\ boot' = [boot EXCEPT !.queue = Tail(@)]
               /\ UNCHANGED <<pluginVars, serviceVars, actionVars, evalVars>>
               /\ UNCHANGED <<composeVars, modelVars, eventVars>>
               /\ UNCHANGED <<knowledgeVars, stopping, auditLog>>
    /\ UNCHANGED <<character, setting, twitter>>

\* A loop is over: after the character's plugins come [...this.plugins];
\* after those, ensureRoomExists is called (it awaits getRoom) and
\* Promise.all is awaited.
initializeLaunched ==
    /\ boot.pc = "launching"
    /\ boot.queue = <<>>
    /\ boot' = IF boot.phase = "character"
               THEN [boot EXCEPT !.phase = "constructor", !.queue = plugins]
               ELSE [boot EXCEPT !.pc = "registering", !.room = "getRoom",
                                 !.trace = Append(@, "ensureRoomExists")]
    /\ UNCHANGED <<character, setting, twitter>>
    /\ UNCHANGED <<knowledgeVars, modelVars, pluginVars, eventVars, stopping>>
    /\ UNCHANGED <<composeVars, serviceVars, actionVars, evalVars, auditLog>>

\* ensureRoomExists: getRoom resolved (createRoom is called if there is no
\* room), or createRoom resolved.
initializeRoomReturns(found) ==
    /\ boot.room \in {"getRoom", "createRoom"}
    /\ boot.room = "createRoom" => found
    /\ boot' = [boot EXCEPT !.room = IF found THEN "done" ELSE "createRoom"]
    /\ UNCHANGED <<character, setting, twitter>>
    /\ UNCHANGED <<knowledgeVars, modelVars, pluginVars, eventVars, stopping>>
    /\ UNCHANGED <<composeVars, serviceVars, actionVars, evalVars, auditLog>>

\* ensureRoomExists: getRoom or createRoom rejected.
initializeRoomFails ==
    /\ boot.room \in {"getRoom", "createRoom"}
    /\ boot' = [boot EXCEPT !.room = "failed"]
    /\ UNCHANGED <<character, setting, twitter>>
    /\ UNCHANGED <<knowledgeVars, modelVars, pluginVars, eventVars, stopping>>
    /\ UNCHANGED <<composeVars, serviceVars, actionVars, evalVars, auditLog>>

\* Promise.all waits until every promise has settled, whatever the outcome.
RegistrationSettled(room, registrations, launched) ==
    /\ room \in {"done", "failed"}
    /\ \A l \in 1..Len(launched) :
            registrations[launched[l]].pc \in {"resolved", "rejected"}

\* Promise.all([ensureRoomExists(...), ...pluginRegistrationPromises])
\* resolves: every promise of the list resolved.
RegistrationResolved(room, registrations, launched) ==
    /\ room = "done"
    /\ \A l \in 1..Len(launched) : registrations[launched[l]].pc = "resolved"

\* await Promise.all(...) resolved: getParticipantsForRoom is called.
initializeRegistered ==
    /\ boot.pc = "registering"
    /\ RegistrationResolved(boot.room, installs, boot.launched)
    /\ boot' = AdapterCall(boot, "getParticipantsForRoom")
    /\ UNCHANGED <<character, setting, twitter>>
    /\ UNCHANGED <<knowledgeVars, modelVars, pluginVars, eventVars, stopping>>
    /\ UNCHANGED <<composeVars, serviceVars, actionVars, evalVars, auditLog>>

\* await Promise.all(...) rejected, with the error of ensureRoomExists or of
\* a registerPlugin call; the promises that have not settled keep running.
initializeRegistrationFails ==
    /\ boot.pc = "registering"
    /\ \/ /\ boot.room = "failed"
          /\ boot' = Rejected(boot, "ensureRoomExists")
       \/ /\ \E l \in 1..Len(boot.launched) :
                installs[boot.launched[l]].pc = "rejected"
          /\ boot' = Rejected(boot, "registerPlugin")
    /\ UNCHANGED <<character, setting, twitter>>
    /\ UNCHANGED <<knowledgeVars, modelVars, pluginVars, eventVars, stopping>>
    /\ UNCHANGED <<composeVars, serviceVars, actionVars, evalVars, auditLog>>

\* `this.character?.knowledge && this.character.knowledge.length > 0`
HasKnowledge(c) == Len(c.knowledge) > 0

\* The agent is a participant of its room (getParticipantsForRoom listed it,
\* or addParticipant added it) and the character has knowledge:
\* processCharacterKnowledge(stringKnowledge) is called.
initializeKnowledgeStarts ==
    /\ boot.pc = "adapter"
    /\ boot.step \in {"getParticipantsForRoom", "addParticipant"}
    /\ HasKnowledge(character)
    /\ processCharacterKnowledge(StringKnowledge(character.knowledge))
    /\ boot' = [boot EXCEPT !.pc = "knowledge",
                            !.trace = Append(@, "processCharacterKnowledge")]
    /\ UNCHANGED <<character, setting, twitter>>
    /\ UNCHANGED <<modelVars, pluginVars, eventVars, stopping>>
    /\ UNCHANGED <<composeVars, serviceVars, actionVars, evalVars, auditLog>>

\* await this.processCharacterKnowledge(...) rejected.
initializeKnowledgeFails ==
    /\ boot.pc = "knowledge"
    /\ kn.pc = "rejected"
    /\ boot' = Rejected(boot, "processCharacterKnowledge")
    /\ UNCHANGED <<character, setting, twitter>>
    /\ UNCHANGED <<knowledgeVars, modelVars, pluginVars, eventVars, stopping>>
    /\ UNCHANGED <<composeVars, serviceVars, actionVars, evalVars, auditLog>>

\* The knowledge step is over, or there was none: getModel(TEXT_EMBEDDING);
\* without handler initialize resolves, else ensureEmbeddingDimension is
\* called and runs up to `await this.useModel(TEXT_EMBEDDING, null)`.
initializeEmbeddingStarts ==
    /\ \/ /\ boot.pc = "adapter"
          /\ boot.step \in {"getParticipantsForRoom", "addParticipant"}
          /\ ~HasKnowledge(character)
       \/ /\ boot.pc = "knowledge"
          /\ kn.pc = "resolved"
    /\ IF getModel(models, "TEXT_EMBEDDING") = "undefined"
       THEN /\ boot' = [boot EXCEPT !.pc = "resolved"]
            /\ UNCHANGED um
       ELSE /\ boot' = [boot EXCEPT
                            !.pc = "embedding",
                            !.trace = Append(@, "ensureEmbeddingDimension")]
            /\ um' = UseModelStart("TEXT_EMBEDDING", "ensureEmbeddingDimension")
    /\ UNCHANGED <<character, setting, twitter>>
    /\ UNCHANGED <<models, modelCalls, knowledgeVars, pluginVars, eventVars, stopping>>
    /\ UNCHANGED <<composeVars, serviceVars, actionVars, evalVars, auditLog>>

\* await this.useModel(...) resolved: `if (!embedding || !embedding.length)
\* throw`, else the adapter's ensureEmbeddingDimension is called.
initializeEmbedded ==
    /\ boot.pc = "embedding"
    /\ um.pc = "returned"
    /\ boot' = IF EmbeddingLength(um.response) = 0
               THEN Rejected(boot, "ensureEmbeddingDimension")
               ELSE [boot EXCEPT !.pc = "adapter",
                                 !.step = "ensureEmbeddingDimension"]
    /\ UNCHANGED <<character, setting, twitter>>
    /\ UNCHANGED <<knowledgeVars, modelVars, pluginVars, eventVars, stopping>>
    /\ UNCHANGED <<composeVars, serviceVars, actionVars, evalVars, auditLog>>

\* await this.useModel(...) rejected.
initializeEmbeddingFails ==
    /\ boot.pc = "embedding"
    /\ um.pc = "rejected"
    /\ boot' = Rejected(boot, "ensureEmbeddingDimension")
    /\ UNCHANGED <<character, setting, twitter>>
    /\ UNCHANGED <<knowledgeVars, modelVars, pluginVars, eventVars, stopping>>
    /\ UNCHANGED <<composeVars, serviceVars, actionVars, evalVars, auditLog>>

\* The registration loops are not running: other steps may be taken.
Awaiting == boot.pc # "launching"

InitializeNext ==
    \/ /\ boot.pc = "idle"
       /\ \E opts \in InitOptions : construct(opts)
    \/ /\ boot.pc = "idle"
       /\ Len(modelCalls) < 1
       /\ \E h \in {"h1", "h2"} : registerModel("TEXT_EMBEDDING", h)
    \/ initializeCall
    \/ \E result \in BOOLEAN : initializeAdapterReturns(result)
    \/ initializeAdapterFails
    \/ initializeEntityReady
    \/ initializeImported
    \/ initializeImportFails
    \/ initializeLaunch
    \/ initializeLaunched
    \/ initializeRegistered
    \/ initializeRegistrationFails
    \/ initializeKnowledgeStarts
    \/ initializeKnowledgeFails
    \/ initializeEmbeddingStarts
    \/ initializeEmbedded
    \/ initializeEmbeddingFails
    \/ Awaiting /\ \E r \in 1..Len(regs) : registerServiceStarted(r)
    \/ Awaiting /\ \E r \in 1..Len(regs) : registerServiceFailed(r)
    \/ Awaiting /\ \E n \in 1..Len(installs) : registerPluginServicesDone(n)
    \/ Awaiting /\ \E n \in 1..Len(installs) : registerPluginServiceFails(n)
    \/ Awaiting /\ \E n \in 1..Len(installs) : registerPluginInitReturns(n)
    \/ Awaiting /\ \E n \in 1..Len(installs) : registerPluginInitThrows(n)
    \/ \E found \in BOOLEAN : initializeRoomReturns(found)
    \/ initializeRoomFails
    \/ knowledgeChecked
    \/ knowledgeDocumentCreated
    \/ knowledgeSplit
    \/ knowledgeFragmentCreated
    \/ knowledgeStorageFails
    \/ useModelHandlerReturns
    \/ useModelHandlerThrows
    \/ useModelLogged

-----------------------------------------------------------------------------
(* TwitterService and TwitterClientInstance.  Ids are sequences of          *)
(* characters, the client key their concatenation around "-".  createClient *)
(* is cut at `await client.client.init()`.  A stop() call runs, without     *)
(* await, into stopAllClients and from there into client.service.stop();    *)
(* the calls nest until the engine's stack is exhausted, which is modelled  *)
(* by a RangeError at depth MaxStack.  createClient calls are made before   *)
(* stop() is called, and stop() when no createClient is in flight.  A call  *)
(* that resumes runs on a fresh stack and can nest again, so the chain of    *)
(* awaiting calls has no bound; it is followed up to MaxFrames.              *)

\* Most createClient calls in one behaviour.
MaxCreates == 3
\* The number of nested stop() calls at which a further call throws
\* RangeError (the engine's stack limit).
MaxStack == 3
\* Most stop() calls awaiting a nested one that a behaviour is followed to.
MaxFrames == 5

ClientIds == {<<"a">>, <<"a", "-", "b">>}

\* The runtimes createClient is called with: the agent id, what
\* getSetting("TWITTER_2FA_SECRET") returns, and whether
\* getSetting("TWITTER_SPACES_ENABLE") is true.
Runtimes ==
    { [agentId |-> <<"c">>, twoFactor |-> Null, spaces |-> FALSE],
      [agentId |-> <<"b", "-", "c">>, twoFactor |-> Str("s"), spaces |-> TRUE] }

\* No TwitterService exists.  clients is the Map in insertion order, made
\* the TwitterClientInstance objects constructed, creates the createClient
\* calls, written the agents whose runtime got TWITTER_2FA_SECRET set,
\* frames the stop() calls that await a nested stop(), innermost last,
\* settled the outcome of the stop() call the innermost frame awaits, stop
\* the outcome of the outermost call, atStop the clients when it was made.
IdleTwitter ==
    [instance |-> FALSE, clients |-> <<>>, made |-> <<>>, creates |-> <<>>,
     written |-> {}, frames |-> <<>>, settled |-> "none", stop |-> "idle",
     atStop |-> <<>>]

\* getClientKey(clientId, agentId): `${clientId}-${agentId}`
getClientKey(clientId, agentId) == clientId \o <<"-">> \o agentId

\* getClient(clientId, agentId): the instance stored for the key, or
\* undefined (0).
getClient(clients, clientId, agentId) ==
    IF MapHas(clients, getClientKey(clientId, agentId))
    THEN (clients[CHOOSE i \in 1..Len(clients) :
                clients[i].key = getClientKey(clientId, agentId)]).value
    ELSE 0

\* new TwitterClientInstance(runtime, state): client, post, interaction and,
\* if TWITTER_SPACES_ENABLE is true, space; service is the singleton.
TwitterClientInstance(runtime, clientId) ==
    [clientId |-> clientId, agentId |-> runtime.agentId,
     space |-> runtime.spaces, started |-> <<>>, stops |-> 0]

\* The loops createClient starts once init has resolved.
StartedLoops(client) ==
    (IF client.space THEN <<"space">> ELSE <<>>) \o <<"post", "interaction">>

\* this.clients.delete(key)
MapDelete(map, key) == SelectSeq(map, LAMBDA e : e.key # key)

\* A step of the Twitter service: the runtime's own state is not touched.
TwitterStep(t) ==
    /\ twitter' = t
    /\ UNCHANGED <<character, setting, boot>>
    /\ UNCHANGED <<knowledgeVars, modelVars, pluginVars, eventVars, stopping>>
    /\ UNCHANGED <<composeVars, serviceVars, actionVars, evalVars, auditLog>>

\* TwitterService.getInstance() creates the singleton.
getInstance ==
    /\ ~twitter.instance
    /\ TwitterStep([twitter EXCEPT !.instance = TRUE])

\* createClient(runtime, clientId, state) on the singleton, up to its await:
\* the setting is written if it reads null, an existing client is returned,
\* else an instance is constructed and client.client.init() called.  alone
\* records that no other createClient call was in flight.
createClient(runtime, clientId) ==
    /\ twitter.instance
    /\ twitter.stop = "idle"
    /\ Len(twitter.creates) < MaxCreates
    /\ LET existingClient == getClient(twitter.clients, clientId,
                                       runtime.agentId)
           written == IF runtime.twoFactor = Null
                      THEN twitter.written \cup {runtime.agentId}
                      ELSE twitter.written
           call == [clientId |-> clientId, agentId |-> runtime.agentId,
                    pc |-> "returned", client |-> existingClient,
                    existing |-> TRUE,
                    alone |-> \A c \in 1..Len(twitter.creates) :
                                    twitter.creates[c].pc # "init"]
       IN TwitterStep(
            IF existingClient # 0
            THEN [twitter EXCEPT !.written = written,
                                 !.creates = Append(@, call)]
            ELSE [twitter EXCEPT
                    !.written = written,
                    !.made = Append(@, TwitterClientInstance(runtime, clientId)),
                    !.creates = Append(@,
                        [call EXCEPT !.pc = "init", !.existing = FALSE,
                                     !.client = Len(twitter.made) + 1])])

\* await client.client.init() resolved: the loops are started, the instance
\* is stored under its key and returned.
createClientInitialized(c) ==
    /\ twitter.creates[c].pc = "init"
    /\ LET call == twitter.creates[c]
       IN TwitterStep([twitter EXCEPT
            !.made[call.client].started =
                @ \o StartedLoops(twitter.made[call.client]),
            !.clients = MapSet(@, getClientKey(call.clientId, call.agentId),
                               call.client),
            !.creates[c].pc = "returned"])

\* await client.client.init() rejected: the catch logs and rethrows.
createClientInitFails(c) ==
    /\ twitter.creates[c].pc = "init"
    /\ TwitterStep([twitter EXCEPT !.creates[c].pc = "rejected"])

\* A stop() call made at the given depth of nested calls runs into
\* stopAllClients.  Without clients the call resolves.  Otherwise the loop
\* takes the first entry and calls client.service.stop(), which is this
\* very service: the call nests, the frame awaits it.  At depth MaxStack the
\* nested call throws RangeError instead; the catch of the loop runs on the
\* exhausted stack: either it logs, the loop goes on the same way and the
\* call resolves (caught), or logging throws in turn and the call rejects.
RECURSIVE stopAllClients(_, _, _)
stopAllClients(t, depth, caught) ==
    IF t.clients = <<>> THEN [t EXCEPT !.settled = "resolved"]
    ELSE IF depth >= MaxStack
         THEN [t EXCEPT !.settled = IF caught THEN "resolved" ELSE "rejected"]
    ELSE LET entry == t.clients[1]
         IN stopAllClients(
                [t EXCEPT !.frames = Append(@, [key |-> entry.key,
                                                visited |-> {entry.key}]),
                          !.made[entry.value].stops = @ + 1],
                depth + 1, caught)

\* stop() is called on the singleton.
stop(caught) ==
    /\ twitter.instance
    /\ twitter.stop = "idle"
    /\ \A c \in 1..Len(twitter.creates) : twitter.creates[c].pc # "init"
    /\ TwitterStep(stopAllClients([twitter EXCEPT !.stop = "called",
                                                  !.atStop = twitter.clients],
                                  1, caught))

\* The nested stop() call the innermost frame awaits has settled.  If it
\* resolved the key is deleted, if it rejected the catch logs.  The loop
\* then takes the next entry of the Map, if any, and calls
\* client.service.stop() from the frame, which runs on a fresh stack; else
\* the frame resolves.
stopAllClientsResumes(caught) ==
    /\ twitter.frames # <<>>
    /\ Len(twitter.frames) <= MaxFrames
    /\ twitter.settled # "none"
    /\ LET frame == twitter.frames[Len(twitter.frames)]
           outer == SubSeq(twitter.frames, 1, Len(twitter.frames) - 1)
           kept == IF twitter.settled = "resolved"
                   THEN MapDelete(twitter.clients, frame.key)
                   ELSE twitter.clients
           rest == SelectSeq(kept, LAMBDA e : e.key \notin frame.visited)
       IN TwitterStep(
            IF rest = <<>>
            THEN [twitter EXCEPT !.clients = kept, !.frames = outer,
                                 !.settled = "resolved"]
            ELSE stopAllClients(
                    [twitter EXCEPT
                        !.clients = kept,
                        !.frames = Append(outer,
                            [key |-> rest[1].key,
                             visited |-> frame.visited \cup {rest[1].key}]),
                        !.made[rest[1].value].stops = @ + 1,
                        !.settled = "none"],
                    2, caught))

\* `await this.stopAllClients()` of the outermost stop() has settled.
stopSettles ==
    /\ twitter.stop = "called"
    /\ twitter.frames = <<>>
    /\ twitter.settled # "none"
    /\ TwitterStep([twitter EXCEPT !.stop = twitter.settled])

TwitterNext ==
    \/ getInstance
    \/ \E runtime \in Runtimes, clientId \in ClientIds :
            createClient(runtime, clientId)
    \/ \E c \in 1..Len(twitter.creates) : createClientInitialized(c)
    \/ \E c \in 1..Len(twitter.creates) : createClientInitFails(c)
    \/ \E caught \in BOOLEAN : stop(caught)
    \/ \E caught \in BOOLEAN : stopAllClientsResumes(caught)
    \/ stopSettles

-----------------------------------------------------------------------------
(* The runtime after construction, and the specifications.                  *)

Init ==
    /\ providers = <<>>
    /\ stateCache = [m \in Messages |-> NoEntry]
    /\ calls = [c \in 1..MaxCalls |-> IdleCall]
    /\ lastCall = NoReturn
    /\ nCalls = 0
    /\ services = <<>>
    /\ regs = <<>>
    /\ actions = <<>>
    /\ pa = IdleProcess
    /\ invoked = <<>>
    /\ resolved = <<>>
    /\ evaluators = <<>>
    /\ ev = IdleEvaluate
    /\ auditLog = <<>>
    /\ store = <<>>
    /\ kn = IdleKnowledge
    /\ gk = IdleGetKnowledge
    /\ models = <<>>
    /\ um = IdleUseModel
    /\ modelCalls = <<>>
    /\ plugins = <<>>
    /\ routes = <<>>
    /\ installs = <<>>
    /\ adapter = NoAdapter
    /\ supplied = <<>>
    /\ constructed = FALSE
    /\ events = <<>>
    /\ emitted = NoEmit
    /\ eventCalls = <<>>
    /\ stopping = IdleStop
    /\ character = DefaultCharacter
    /\ setting = NoSetting
    /\ boot = IdleInitialize
    /\ twitter = IdleTwitter

ComposeNext ==
    \/ \E p \in ProviderPool : registerProvider(p)
    \/ /\ nCalls < MaxCalls
       /\ \E c \in 1..MaxCalls, m \in Messages, args \in OverlapArgs :
            composeStateRead(c, m, args[1], args[2])
    \/ \E c \in 1..MaxCalls : composeStateFetch(c)
    \/ \E c \in 1..MaxCalls : composeStateMerge(c)

\* composeState calls that may overlap.
SpecCompose == Init /\ [][ComposeNext]_vars

ComposeSeqNext ==
    \/ \E p \in ProviderPool : registerProvider(p)
    \/ /\ nCalls < MaxSeqCalls
       /\ \E m \in Messages, args \in ComposeArgs :
            composeStateRead(1, m, args[1], args[2])
    \/ composeStateFetch(1)
    \/ composeStateMerge(1)

\* composeState calls made one after the other.
SpecComposeSeq == Init /\ [][ComposeSeqNext]_vars

\* Service registrations, possibly in flight together.
SpecService == Init /\ [][ServiceNext]_vars

\* One processActions call on a runtime with registered actions.
SpecActions == Init /\ [][ActionsNext]_vars

\* One evaluate call on a runtime with registered evaluators.
SpecEvaluate == Init /\ [][EvaluateNext]_vars

\* Model registrations and one useModel call.
SpecModels == Init /\ [][ModelsNext]_vars

\* processCharacterKnowledge calls made one after the other.
SpecIngest == Init /\ [][IngestNext]_vars

\* getKnowledge on a runtime that may have ingested an item.
SpecKnowledge == Init /\ [][KnowledgeNext]_vars

\* Event handler registrations and emitEvent.
SpecEvents == Init /\ [][EventsNext]_vars

\* Service registrations and one stop() call.
SpecStop == Init /\ [][StopNext]_vars

\* registerPlugin calls, which may overlap, on a runtime constructed with or
\* without plugins.
SpecPlugin == Init /\ [][PluginNext]_vars

\* The ways an adapter is supplied to a runtime.
SpecAdapter == Init /\ [][AdapterNext]_vars

\* One processActions call that requests names written without underscores.
SpecNormalize == Init /\ [][NormalizeNext]_vars

\* setSetting and getSetting on a runtime built for a character.
SpecSettings == Init /\ [][SettingsNext]_vars

\* One initialize() call on a runtime constructed for a character.
SpecInitialize == Init /\ [][InitializeNext]_vars

\* The continuation of initialize runs once the promise it awaits has
\* settled.
FairInitialize ==
    /\ SpecInitialize
    /\ WF_vars(initializeRegistrationFails)
    /\ WF_vars(initializeKnowledgeFails)
    /\ WF_vars(initializeEmbedded)
    /\ WF_vars(initializeEmbeddingFails)

\* The Twitter service: clients are created, then the service is stopped.
SpecTwitter == Init /\ [][TwitterNext]_vars

\* A stop() call goes on once the call it awaits has settled.
FairTwitter ==
    /\ SpecTwitter
    /\ WF_vars(\E caught \in BOOLEAN : stopAllClientsResumes(caught))
    /\ WF_vars(stopSettles)

-----------------------------------------------------------------------------
(* Properties of composeState.                                              *)

\* The names of the providers whose get() a call invoked.
NamesOf(toGet) == {toGet[i].name : i \in 1..Len(toGet)}

\* Index of a provider in this.providers (its registration order).
RegIndex(p) == CHOOSE i \in 1..Len(providers) : providers[i] = p

\* p comes before q in ascending declared position, ties by registration.
Before(p, q) ==
    \/ Position(p) < Position(q)
    \/ Position(p) = Position(q) /\ RegIndex(p) < RegIndex(q)

\* The names of the fetched providers in the order in which the merge loop
\* (for..in over combinedValues) assigned their values.
AssignOrder(call) ==
    LET Fetched(e) == e.name \in NamesOf(call.toGet)
        entries == SelectSeq(call.state.providers, Fetched)
    IN [i \in 1..Len(entries) |-> entries[i].name]

RECURSIVE JoinStrings(_)
JoinStrings(lines) ==
    IF lines = <<>> THEN ""
    ELSE IF Len(lines) = 1 THEN lines[1]
    ELSE lines[1] \o "\n" \o JoinStrings(Tail(lines))

\* C1: a second composeState call for a message that selects no provider that
\* is not already cached for the message returns the snapshot of the first:
\* the same values, data.providers and text as the cache entry it started from.
C1_Idempotent ==
    (/\ lastCall.returned
     /\ lastCall.hadEntry
     /\ NamesOf(lastCall.toGet) \subseteq KeysOf(lastCall.cachedState.providers))
        => lastCall.state = lastCall.cachedState

\* C3: the fetched providers of a call are merged in ascending declared
\* position, ties by registration order, whatever the completion order: both
\* the order of their text (the order of the fetch results) and the order in
\* which their values are assigned.
C3_MergeInPositionOrder ==
    lastCall.returned =>
        LET toGet == lastCall.toGet
            assigned == AssignOrder(lastCall)
        IN /\ \A i, j \in 1..Len(toGet) : i < j => Before(toGet[i], toGet[j])
           /\ assigned = [i \in 1..Len(toGet) |-> toGet[i].name]

C6_StateText ==
    lastCall.returned =>
        LET toGet == lastCall.toGet
            HasLine(p) == p.hasText /\ p.text # ""
            fetched == SelectSeq(toGet, HasLine)
            lines == (IF lastCall.cachedState.text = "" THEN <<>>
                      ELSE <<lastCall.cachedState.text>>)
                     \o [i \in 1..Len(fetched) |-> fetched[i].text]
        IN /\ lastCall.state.text = JoinStrings(lines)
           /\ (/\ NamesOf(toGet) = {"P1", "P2"}
               /\ ~lastCall.hadEntry)
                => lastCall.state.text = "ctx1\nctx2"


-----------------------------------------------------------------------------
(* Properties of the service registry.                                      *)

\* The registerService calls for type t whose start factory was invoked and
\* did not fail.
StartedFor(t) ==
    {r \in 1..Len(regs) :
        /\ regs[r].service.serviceType = t
        /\ regs[r].pc \in {"starting", "registered"}}

\* C2: for every service type, however the registrations for it overlap, at
\* most one start factory is invoked, and once registrations have completed
\* the instance stored under the type is the one that factory made.
C2_AtMostOneServicePerType ==
    \A t \in ServiceTypes :
        /\ Cardinality(StartedFor(t)) <= 1
        /\ MapHas(services, t) =>
             \A r \in StartedFor(t) : getService(services, t).startedBy = r

-----------------------------------------------------------------------------
(* Properties of processActions.                                            *)

\* The registered actions whose normalized name matches the requested name.
MatchingByName(requested) ==
    {i \in 1..Len(actions) :
        FuzzyMatch(actions[i].name, normalizeAction(requested))}

\* The registered actions one of whose aliases matches the requested name.
MatchingByAlias(requested) ==
    {i \in 1..Len(actions) :
        /\ actions[i].hasSimiles
        /\ \E k \in 1..Len(actions[i].similes) :
              FuzzyMatch(actions[i].similes[k], normalizeAction(requested))}

Least(set) == CHOOSE i \in set : \A j \in set : i <= j

\* The handler invocations made for the requested name at position <<r, a>>.
InvokedAt(r, a) ==
    {h \in 1..Len(invoked) : invoked[h].r = r /\ invoked[h].a = a}

\* C7: a requested name resolves to the first registered action whose
\* normalized name matches it; only when no name matches, to the first
\* registered action with a matching alias; else to none.  In particular
\* send_message resolves to the action named SEND_MESSAGE wherever it is in
\* the registry.
C7_ResolutionPrecedence ==
    \A e \in 1..Len(resolved) :
        LET requested == resolved[e].requested
            byName == MatchingByName(requested)
            byAlias == MatchingByAlias(requested)
        IN /\ byName # {} => resolved[e].action = Least(byName)
           /\ (byName = {} /\ byAlias # {}) => resolved[e].action = Least(byAlias)
           /\ (byName = {} /\ byAlias = {}) => resolved[e].action = 0
           /\ (/\ requested = send_message
               /\ \E i \in 1..Len(actions) : actions[i] = SendMessage)
                => /\ resolved[e].action # 0
                   /\ actions[resolved[e].action] = SendMessage

\* send_message was resolved to SEND_MESSAGE, and its handler called, although
\* an action registered earlier has a matching alias.
C7_Witness ==
    \E e \in 1..Len(resolved) :
        /\ resolved[e].requested = send_message
        /\ resolved[e].action # 0
        /\ actions[resolved[e].action] = SendMessage
        /\ \E i \in MatchingByAlias(send_message) : i < resolved[e].action
        /\ InvokedAt(resolved[e].r, resolved[e].a) # {}

\* C8 (as claimed): with SEND_MESSAGE (no aliases) the only registered action,
\* the requested name sendmsg resolves to it and its handler is invoked.
C8_SendmsgResolves ==
    \A e \in 1..Len(resolved) :
        (actions = <<SendMessage>> /\ resolved[e].requested = sendmsg)
            => /\ resolved[e].action = 1
               /\ InvokedAt(resolved[e].r, resolved[e].a) # {}

\* C8 (amended): with SEND_MESSAGE (no aliases) the only registered action,
\* the requested name sendmsg resolves to no action and no handler is invoked
\* for it, neither of "sendmsg" and "sendmessage" containing the other; a
\* requested name that "sendmessage" contains, such as send or send_message,
\* resolves to the action and its handler is invoked.
C8_SendmsgUnresolved ==
    \A e \in 1..Len(resolved) :
        actions = <<SendMessage>> =>
            /\ resolved[e].requested = sendmsg
                => /\ resolved[e].action = 0
                   /\ InvokedAt(resolved[e].r, resolved[e].a) = {}
            /\ resolved[e].requested \in {send, send_message}
                => /\ resolved[e].action = 1
                   /\ InvokedAt(resolved[e].r, resolved[e].a) # {}

\* Both sendmsg and send have been requested of a registry holding
\* SEND_MESSAGE alone.
C8_Witness ==
    /\ actions = <<SendMessage>>
    /\ \E e \in 1..Len(resolved) : resolved[e].requested = sendmsg
    /\ \E e \in 1..Len(resolved) : resolved[e].requested = send

\* C9: when a handler has thrown, it is the last handler that was invoked,
\* and processActions has rejected with the error it threw.
C9_FailFast ==
    \A h \in 1..Len(invoked) :
        invoked[h].outcome = "threw"
            => /\ h = Len(invoked)
               /\ pa.pc = "rejected"
               /\ pa.error = ErrorOf(h)

\* processActions rejected while the response holds a further action name,
\* and the batch a further response, that resolve to actions with a handler.
C9_Witness ==
    /\ pa.pc = "rejected"
    /\ pa.a < Len(pa.responses[pa.r].actions)
    /\ pa.r < Len(pa.responses)
    /\ \E i \in MatchingByName(pa.responses[pa.r].actions[pa.a + 1]) :
            actions[i].hasHandler
    /\ pa.responses[pa.r + 1].hasActions
    /\ \E i \in MatchingByName(pa.responses[pa.r + 1].actions[1]) :
            actions[i].hasHandler

-----------------------------------------------------------------------------
(* Properties of evaluate.                                                  *)

\* The registered evaluators with a handler, due to run, whose validation
\* returned true, as indexes of this.evaluators.
Passing ==
    {i \in 1..Len(evaluators) :
        /\ evaluators[i].hasHandler
        /\ (ev.didRespond \/ evaluators[i].alwaysRun)
        /\ ev.validation[i] = "true"}

\* C10: evaluate returns exactly the evaluators with a handler, with
\* didRespond or alwaysRun, whose validation returned true, in registration
\* order; validate is not invoked for an evaluator without handler, nor for
\* one that is not always-run when didRespond is false.
C10_EvaluatorGating ==
    /\ ev.pc # "idle" =>
         \A i \in 1..Len(evaluators) :
            ev.validation[i] # "skipped"
                => /\ evaluators[i].hasHandler
                   /\ (ev.didRespond \/ evaluators[i].alwaysRun)
    /\ ev.pc = "returned" =>
         /\ Len(ev.result) = Cardinality(Passing)
         /\ \A k \in 1..Len(ev.result) :
              \E i \in Passing :
                 /\ ev.result[k] = evaluators[i]
                 /\ Cardinality({j \in Passing : j < i}) = k - 1

\* evaluate returned a non-empty list with didRespond false, having skipped
\* an evaluator without handler and one that is not always-run.
C10_Witness ==
    /\ ev.pc = "returned"
    /\ ~ev.didRespond
    /\ ev.result # <<>>
    /\ \E i \in 1..Len(evaluators) :
         ~evaluators[i].hasHandler /\ ev.validation[i] = "skipped"
    /\ \E i \in 1..Len(evaluators) :
         /\ evaluators[i].hasHandler
         /\ ~evaluators[i].alwaysRun
         /\ ev.validation[i] = "skipped"

-----------------------------------------------------------------------------
(* The model registry.                                                     *)

\* The handler of the earliest call in `history` that registered for `key`.
FirstRegistered(history, key) ==
    LET for == {c \in 1..Len(history) : history[c].key = key}
    IN IF for = {} THEN "undefined" ELSE history[Least(for)].handler

\* C14: after any sequence of registerModel calls, getModel(type) is the
\* handler registered first for that type, whatever was registered for it
\* later, and undefined for a type nothing was registered for.
C14_FirstRegisteredModel ==
    \A key \in ModelTypeKeys :
        getModel(models, key) = FirstRegistered(modelCalls, key)

\* Two different handlers were registered for one type, none for another.
C14_Witness ==
    /\ \E c, d \in 1..Len(modelCalls) :
        /\ c < d
        /\ modelCalls[c].key = modelCalls[d].key
        /\ modelCalls[c].handler # modelCalls[d].handler
        /\ getModel(models, modelCalls[c].key) = modelCalls[c].handler
    /\ \E key \in ModelTypeKeys : getModel(models, key) = "undefined"

\* The audit entries useModel wrote.
UseModelEntries ==
    {e \in 1..Len(auditLog) : auditLog[e].type = UseModelTag(um.modelType)}

\* C15: useModel for a type with no handler registered at the call fails
\* with an error carrying the type key, invokes no handler and writes no
\* audit entry; with a handler it calls the first-registered one once,
\* writes exactly one entry tagged useModel:<modelType>, after the handler
\* returned, and returns the handler's result.
C15_UseModel ==
    um.pc # "idle" =>
        LET earliest == FirstRegistered(SubSeq(modelCalls, 1, um.registeredBefore),
                                     um.modelType)
        IN IF earliest = "undefined"
           THEN /\ um.pc = "rejected"
                /\ um.error = NoHandlerError(um.modelType)
                /\ um.error.key = um.modelType
                /\ um.called = <<>>
                /\ auditLog = <<>>
           ELSE /\ um.called = <<earliest>>
                /\ um.pc \in {"handler", "log", "rejected"} => auditLog = <<>>
                /\ um.pc = "rejected" => um.error # NoHandlerError(um.modelType)
                /\ um.pc \in {"log", "returned"} =>
                        um.response = ResponseOf(earliest)
                /\ um.pc = "returned" =>
                        /\ Len(auditLog) = 1
                        /\ UseModelEntries = {1}
                        /\ auditLog[1].type = "useModel:" \o um.modelType

\* useModel failed for a type without handler while another type has one.
C15_Witness ==
    /\ um.pc = "rejected"
    /\ um.error = NoHandlerError(um.modelType)
    /\ getModel(models, um.modelType) = "undefined"
    /\ models # <<>>

-----------------------------------------------------------------------------
(* Knowledge ingestion.                                                    *)

\* The literal text of the item a memory was created for.
ItemTextOf(memory) ==
    IF memory.type = "document" THEN memory.id.base ELSE memory.documentId.base

\* The memories an item visit created: item i of call c.
WrittenBy(c, i) == SelectSeq(store, LAMBDA w : w.call = c /\ w.i = i)

\* Item i of call c was visited before item j of call d.
VisitedBefore(c, i, d, j) == c < d \/ (c = d /\ i < j)

\* C11: once a literal text went through processCharacterKnowledge (added,
\* or skipped as known), a later visit of the same text, in the same item
\* list or in a later call, writes nothing: there is one document per text
\* and every fragment of it was written by the visit that wrote the document.
C11_KnowledgeIdempotent ==
    /\ \A v \in 1..Len(kn.visits), w \in 1..Len(store) :
        ( /\ kn.visits[v].outcome \in {"added", "skipped"}
          /\ kn.visits[v].text = ItemTextOf(store[w]) )
        => ~VisitedBefore(kn.visits[v].call, kn.visits[v].i,
                          store[w].call, store[w].i)
    /\ \A v, u \in 1..Len(kn.visits) :
        ( /\ v < u
          /\ kn.visits[v].text = kn.visits[u].text
          /\ kn.visits[v].outcome \in {"added", "skipped"} )
        => kn.visits[u].outcome \in {"skipped", "failed"}
    /\ \A w, x \in 1..Len(store) :
        ItemTextOf(store[w]) = ItemTextOf(store[x]) =>
            /\ store[w].call = store[x].call /\ store[w].i = store[x].i
            /\ (store[w].type = "document" /\ store[x].type = "document")
                    => w = x

\* A text with fragments was added, met again in the same list and skipped,
\* and skipped again in the next call.
C11_Witness ==
    \E v, u, t \in 1..Len(kn.visits) :
        /\ kn.visits[v].text = "abc" /\ kn.visits[v].outcome = "added"
        /\ kn.visits[u].text = "abc" /\ kn.visits[u].outcome = "skipped"
        /\ kn.visits[u].call = kn.visits[v].call
        /\ kn.visits[t].text = "abc" /\ kn.visits[t].outcome = "skipped"
        /\ kn.visits[t].call > kn.visits[v].call
        /\ Len(store) = 4

\* C12: addKnowledge stores the document memory and then one fragment memory
\* per chunk, in chunk order: the k-th (from 0) holds chunk k, position k and
\* the item id as document id; fragment ids are pairwise distinct and fixed
\* by the item id and k.
C12_FragmentOrdering ==
    /\ \A w \in 1..Len(store) :
        store[w].type = "fragment" =>
            LET k == Cardinality({x \in 1..(w - 1) :
                        /\ store[x].type = "fragment"
                        /\ store[x].call = store[w].call
                        /\ store[x].i = store[w].i})
            IN /\ store[w].position = k
               /\ store[w].table = "knowledge"
               /\ store[w].text = splitChunks(ItemTextOf(store[w]))[k + 1]
               /\ \E d \in 1..(w - 1) :
                    /\ store[d].type = "document"
                    /\ store[d].table = "documents"
                    /\ store[d].call = store[w].call /\ store[d].i = store[w].i
                    /\ store[d].id = store[w].documentId
    /\ \A w, x \in 1..Len(store) :
        (store[w].type = "fragment" /\ store[x].type = "fragment") =>
            ( store[w].id = store[x].id
              <=> ( /\ store[w].documentId = store[x].documentId
                    /\ store[w].position = store[x].position ) )
    /\ \A w, x \in 1..Len(store) :
        (store[w].id = store[x].id /\ store[w].table = store[x].table)
            => w = x
    /\ \A v \in 1..Len(kn.visits) :
        kn.visits[v].outcome = "added" =>
            LET written == WrittenBy(kn.visits[v].call, kn.visits[v].i)
                chunks == splitChunks(kn.visits[v].text)
            IN /\ Len(written) = Len(chunks) + 1
               /\ written[1].type = "document"
               /\ written[1].id = createUniqueUuid(kn.visits[v].text)
               /\ written[1].text = kn.visits[v].text
               /\ \A k \in 0..(Len(chunks) - 1) :
                    /\ written[k + 2].type = "fragment"
                    /\ written[k + 2].position = k
                    /\ written[k + 2].text = chunks[k + 1]
                    /\ written[k + 2].documentId = written[1].id

\* The item split into [a, b, c] was added: positions 0, 1, 2 on one
\* document id.
C12_Witness ==
    \E v \in 1..Len(kn.visits) :
        /\ kn.visits[v].outcome = "added"
        /\ kn.visits[v].text = "abc"
        /\ LET written == WrittenBy(kn.visits[v].call, kn.visits[v].i)
           IN /\ Len(written) = 4
              /\ <<written[2].text, written[3].text, written[4].text>>
                    = <<"a", "b", "c">>
              /\ <<written[2].position, written[3].position,
                   written[4].position>> = <<0, 1, 2>>
              /\ {written[k].documentId : k \in 2..4} = {written[1].id}

\* The text is missing, empty or made of whitespace only.
Blank(text) ==
    ~text.present \/ \A c \in 1..Len(text.chars) : text.chars[c] \in Whitespace

\* C13: getKnowledge on a message whose text is missing, empty or whitespace
\* only returns an empty list, and neither the embedding model nor the
\* storage (memory tables, audit log) was used.
C13_BlankTextReturnsEmpty ==
    (gk.pc # "idle" /\ Blank(gk.text)) =>
        /\ gk.pc = "returned"
        /\ gk.result = <<>>
        /\ um = IdleUseModel
        /\ gk.accesses = <<>>
        /\ auditLog = <<>>

\* getKnowledge returned for a whitespace-only text while an embedding model
\* is registered and knowledge is stored.
C13_Witness ==
    /\ gk.pc = "returned"
    /\ gk.text.present /\ Len(gk.text.chars) > 0 /\ Blank(gk.text)
    /\ getModel(models, "TEXT_EMBEDDING") # "undefined"
    /\ \E w \in 1..Len(store) : store[w].table = "knowledge"

-----------------------------------------------------------------------------
(* Events.                                                                 *)

\* The handlers registered for a name, in the order of the registerEvent
\* calls.
RegisteredFor(history, name) ==
    LET RECURSIVE From(_)
        From(c) == IF c > Len(history) THEN <<>>
                   ELSE IF history[c].key = name
                        THEN <<history[c].handler>> \o From(c + 1)
                        ELSE From(c + 1)
    IN From(1)

\* Every handler registered before the emit for each given name, names in
\* the given order, handlers in registration order.
RECURSIVE AllHandlers(_)
AllHandlers(names) ==
    IF names = <<>> THEN <<>>
    ELSE LET before == SubSeq(eventCalls, 1, emitted.registeredBefore)
             handlers == RegisteredFor(before, names[1])
         IN [h \in 1..Len(handlers) |->
                [event |-> names[1], handler |-> handlers[h]]]
            \o AllHandlers(Tail(names))

\* C20: emitEvent invokes, name by name in the given order, the handlers
\* registered for the name in registration order, within the call and
\* without waiting for the promises they return; when one throws, emitEvent
\* throws and no later handler, of that name or of a later name, is invoked.
C20_EmitInOrderUntilThrow ==
    emitted.count > 0 =>
        LET all == AllHandlers(emitted.event.names)
            throwers == {c \in 1..Len(all) : all[c].handler.kind = "throws"}
        IN /\ emitted.pendingAtReturn =
                {c \in 1..Len(emitted.invoked) :
                    emitted.invoked[c].handler.kind = "async"}
           /\ IF throwers = {}
              THEN emitted.invoked = all /\ emitted.outcome = "returned"
              ELSE /\ emitted.invoked = SubSeq(all, 1, Least(throwers))
                   /\ emitted.outcome = "threw"
                   /\ emitted.thrownBy = Least(throwers)

\* An emit of two names: a handler returned a promise that is still pending,
\* the next handler threw, and a handler of the second name was not invoked.
C20_Witness ==
    /\ emitted.outcome = "threw"
    /\ Len(emitted.event.names) = 2
    /\ emitted.event.names[1] # emitted.event.names[2]
    /\ Len(emitted.invoked) = 2
    /\ emitted.pending = {1}
    /\ Len(AllHandlers(emitted.event.names)) = 3
    /\ AllHandlers(emitted.event.names)[3].event = emitted.event.names[2]

-----------------------------------------------------------------------------
(* stop().                                                                 *)

\* C19: stop() calls service.stop() on the services of the registry one at
\* a time, in the order their types entered the registry, the next only
\* when the previous has completed; when one throws, stop() rejects and no
\* service later in the order is stopped.
C19_SequentialStop ==
    /\ Len(stopping.called) <= Len(services)
    /\ \A c \in 1..Len(stopping.called) :
        /\ stopping.called[c].key = services[c].key
        /\ regs[stopping.called[c].value.startedBy].pc = "registered"
        /\ regs[stopping.called[c].value.startedBy].service.name
                = stopping.called[c].value.class
    /\ stopping.pc = "awaiting" =>
        /\ Len(stopping.called) = stopping.completed + 1
        /\ stopping.thrownBy = 0
    /\ stopping.pc = "resolved" =>
        /\ stopping.completed = Len(stopping.called)
        /\ Len(stopping.called) >= stopping.registeredAtCall
        /\ stopping.thrownBy = 0
    /\ stopping.thrownBy # 0 =>
        /\ stopping.pc = "rejected"
        /\ stopping.thrownBy = Len(stopping.called)
        /\ stopping.completed = stopping.thrownBy - 1

\* Two services were registered when stop() was called; the first one's
\* stop() threw and the second was never stopped.
C19_Witness ==
    /\ stopping.pc = "rejected"
    /\ stopping.registeredAtCall = 2
    /\ stopping.thrownBy = 1
    /\ Len(stopping.called) = 1
    /\ Len(services) = 2

-----------------------------------------------------------------------------
(* Plugins and the storage adapter.                                        *)

\* The components of one kind brought by the registerPlugin calls so far,
\* call after call.
RECURSIVE Brought(_, _)
Brought(n, kind) ==
    IF n = 0 THEN <<>>
    ELSE Brought(n - 1, kind) \o installs[n].plugin[kind]

\* C16: registerPlugin never lists a second plugin under a name already in
\* the plugin list, and a plugin registered again has its actions,
\* evaluators, providers, model handlers, routes and event handlers appended
\* once more.
C16_PluginNamesOnceComponentsAppended ==
    /\ \A i, j \in 1..Len(plugins) :
        plugins[i].name = plugins[j].name => i = j
    /\ \A n \in 1..Len(installs) :
        ~installs[n].plugin.null =>
            \E i \in 1..Len(plugins) :
                plugins[i].name = installs[n].plugin.name
    /\ actions = Brought(Len(installs), "actions")
    /\ evaluators = Brought(Len(installs), "evaluators")
    /\ providers = Brought(Len(installs), "providers")
    /\ modelCalls = Brought(Len(installs), "models")
    /\ routes = Brought(Len(installs), "routes")
    /\ eventCalls = Brought(Len(installs), "events")
    /\ \A key \in ModelTypeKeys :
        HandlersOf(models, key) = RegisteredFor(modelCalls, key)
    /\ \A name \in EventNames :
        HandlersOf(events, name) = RegisteredFor(eventCalls, name)

\* The same plugin was registered twice: it is listed once and each of its
\* components is registered twice.
C16_Witness ==
    /\ Len(installs) = 2
    /\ installs[1].plugin = PlugA /\ installs[2].plugin = PlugA
    /\ Cardinality({i \in 1..Len(plugins) : plugins[i].name = "twitter"}) = 1
    /\ actions = <<SendMessage, SendMessage>>
    /\ Len(evaluators) = 2 /\ Len(providers) = 2 /\ Len(routes) = 2
    /\ Len(HandlersOf(models, "TEXT_SMALL")) = 2
    /\ Len(HandlersOf(events, "message")) = 2

\* Every element of a list is in another.
AllIn(part, whole) ==
    \A x \in 1..Len(part) : \E y \in 1..Len(whole) : whole[y] = part[x]

\* The components of the plugin of an install are registered.
ComponentsRegistered(install) ==
    /\ AllIn(install.plugin.actions, actions)
    /\ AllIn(install.plugin.evaluators, evaluators)
    /\ AllIn(install.plugin.providers, providers)
    /\ AllIn(install.plugin.routes, routes)
    /\ \A m \in 1..Len(install.plugin.models) :
        AllIn(<<install.plugin.models[m].handler>>,
              HandlersOf(models, install.plugin.models[m].key))
    /\ \A e \in 1..Len(install.plugin.events) :
        AllIn(<<install.plugin.events[e].handler>>,
              HandlersOf(events, install.plugin.events[e].key))

\* init is called at most once per registerPlugin call, with the plugin's
\* config, and a call of a plugin with init resolves only after init
\* returned.
InitOncePerCall(install) ==
    /\ install.initCalls <= 1
    /\ install.initCalls = 1 =>
        install.plugin.hasInit /\ install.initConfig = install.plugin.config
    /\ install.pc = "init" => install.initCalls = 1 /\ ~install.initReturned
    /\ (install.pc = "resolved" /\ install.plugin.hasInit) =>
        install.initCalls = 1 /\ install.initReturned

\* C17 as stated: when init is invoked, the components of the plugin are
\* registered and every service of the plugin has finished starting and is
\* the instance stored in the service registry.
C17_InitAfterEveryServiceStored ==
    \A n \in 1..Len(installs) :
        /\ InitOncePerCall(installs[n])
        /\ installs[n].initCalls > 0 =>
            /\ ComponentsRegistered(installs[n])
            /\ \A l \in 1..Len(installs[n].launched) :
                LET r == installs[n].launched[l]
                IN /\ regs[r].pc = "registered"
                   /\ getService(services, regs[r].service.serviceType)
                        = [class |-> regs[r].service.name, startedBy |-> r]

\* C17: when init is invoked, the components of the plugin are registered
\* and no service registration of the plugin is pending or failed: each
\* service was skipped (no service type, or type already registered) or has
\* finished starting and was stored, and the registry holds an instance for
\* the type of every typed service of the plugin.
C17_InitAfterServicesSettled ==
    \A n \in 1..Len(installs) :
        /\ InitOncePerCall(installs[n])
        /\ installs[n].initCalls > 0 =>
            /\ ComponentsRegistered(installs[n])
            /\ Len(installs[n].launched) = Len(installs[n].plugin.services)
            /\ \A l \in 1..Len(installs[n].launched) :
                LET r == installs[n].launched[l]
                IN /\ regs[r].service = installs[n].plugin.services[l]
                   /\ regs[r].pc \in {"no_type", "skipped", "registered"}
                   /\ regs[r].pc = "no_type" <=> regs[r].service.serviceType = ""
                   /\ regs[r].service.serviceType # "" =>
                        MapHas(services, regs[r].service.serviceType)

\* init of a plugin with two typed services was invoked after both had
\* started, while a service of another plugin was still starting.
C17_Witness ==
    \E n, o \in 1..Len(installs) :
        /\ installs[n].plugin = PlugA
        /\ installs[n].pc = "init"
        /\ \A l \in 1..2 : regs[installs[n].launched[l]].pc = "registered"
        /\ installs[o].pc = "services"
        /\ \E l \in 1..Len(installs[o].launched) :
                regs[installs[o].launched[l]].pc = "starting"

\* C18: the adapter bound to the runtime is the first adapter supplied to
\* it, by the constructor options, registerDatabaseAdapter or a plugin.
C18_FirstAdapterWins ==
    adapter = IF supplied = <<>> THEN NoAdapter ELSE supplied[1]

-----------------------------------------------------------------------------
(* Properties of the action name normalization.                             *)

\* A name in lower case with every occurrence of ch removed.
Squeezed(str, ch) ==
    LET Kept(c) == c # ch IN SelectSeq(toLowerCase(str), Kept)

\* The registered actions a requested name differs from, in the name or in
\* an alias, only by letter case and underscores.
SameButCaseAndUnderscores(requested) ==
    {i \in 1..Len(actions) :
        \/ Squeezed(actions[i].name, "_") = Squeezed(requested, "_")
        \/ /\ actions[i].hasSimiles
           /\ \E k \in 1..Len(actions[i].similes) :
                Squeezed(actions[i].similes[k], "_") = Squeezed(requested, "_")}

\* C23: a requested name that differs from the name or an alias of a
\* registered action only by letter case and underscores resolves to a
\* registered action, however many underscores the name holds.
C23_EveryUnderscoreRemoved ==
    \A j \in 1..Len(resolved) :
        SameButCaseAndUnderscores(resolved[j].requested) # {}
            => resolved[j].action # 0

-----------------------------------------------------------------------------
(* Properties of the dispatch loop of processActions.                       *)

\* The action names of a batch in list order, as <<response, name>> indexes:
\* the responses in list order, and within a response its names in order.
RECURSIVE NamedPositions(_, _)
NamedPositions(responses, r) ==
    IF r > Len(responses) THEN <<>>
    ELSE (IF responses[r].hasActions
          THEN [a \in 1..Len(responses[r].actions) |-> <<r, a>>]
          ELSE <<>>) \o NamedPositions(responses, r + 1)

\* The handler invocation made for the j-th dispatched name, 0 if none.
InvocationOf(j) ==
    LET made == {k \in 1..Len(invoked) :
                    invoked[k].r = resolved[j].r /\ invoked[k].a = resolved[j].a}
    IN IF made = {} THEN 0 ELSE CHOOSE k \in made : TRUE

\* C25: the names are dispatched in list order; composeState is called once
\* for every dispatched name and its result is the state handed to the
\* handler of that name; when the composeState call of a name starts, every
\* handler invoked before has returned and its audit entry is written.
C25_SequentialDispatch ==
    LET positions == NamedPositions(pa.responses, 1)
    IN /\ Len(resolved) <= Len(positions)
       /\ nCalls = Len(resolved)
       /\ \A j \in 1..Len(resolved) :
            /\ <<resolved[j].r, resolved[j].a>> = positions[j]
            /\ resolved[j].requested
                    = pa.responses[positions[j][1]].actions[positions[j][2]]
            /\ resolved[j].call = j
            /\ resolved[j].logged = resolved[j].started
            /\ \A k \in 1..resolved[j].started :
                    /\ invoked[k].outcome = "returned"
                    /\ <<invoked[k].r, invoked[k].a>> \in
                            {positions[i] : i \in 1..(j - 1)}
            /\ InvocationOf(j) # 0 =>
                    /\ InvocationOf(j) = resolved[j].started + 1
                    /\ invoked[InvocationOf(j)].state = resolved[j].state

\* Two handlers ran one after the other, on different states.
C25_Witness ==
    /\ pa.pc = "resolved"
    /\ Len(invoked) >= 2
    /\ invoked[1].state # invoked[2].state
    /\ invoked[2].outcome = "returned"

\* The entries the handler invocations that returned give rise to, in order.
ReturnedEntries ==
    LET Returned(e) == e.outcome = "returned"
        returned == SelectSeq(invoked, Returned)
    IN [k \in 1..Len(returned) |->
            [type |-> "action", name |-> actions[returned[k].action].name,
             messageId |-> "m1"]]

Miss(j) ==
    \/ resolved[j].action = 0
    \/ ~actions[IF resolved[j].action = 0 THEN 1
                ELSE resolved[j].action].hasHandler

\* C27: a response without action names, a name that resolves to nothing and
\* an action without handler invoke no handler and raise no error, and what
\* follows them is still processed: processActions rejects only with the
\* error a handler threw, and resolves only when every name was dispatched.
C27_NonFatalMisses ==
    LET positions == NamedPositions(pa.responses, 1)
    IN /\ \A j \in 1..Len(resolved) : Miss(j) => InvocationOf(j) = 0
       /\ pa.pc = "rejected" =>
            /\ pa.error.thrownBy = Len(invoked)
            /\ Len(invoked) > 0
            /\ invoked[Len(invoked)].outcome = "threw"
       /\ pa.pc = "resolved" => Len(resolved) = Len(positions)
       /\ pa.pc \in {"compose", "handler", "log"} =>
            /\ pa.r # 0
            /\ <<pa.r, pa.a>> \in {positions[i] : i \in 1..Len(positions)}

\* A missed name was followed by a handler that ran to completion.
C27_Witness ==
    /\ pa.pc = "resolved"
    /\ Len(resolved) >= 2
    /\ Miss(1)
    /\ InvocationOf(2) # 0
    /\ invoked[1].outcome = "returned"

-----------------------------------------------------------------------------
(* Properties of the phases of evaluate.                                    *)

\* The validation phase has completed: every promise of the first
\* Promise.all resolved.
ValidationDone ==
    /\ ev.pc \notin {"idle", "validating"}
    /\ \A i \in 1..Len(evaluators) : ev.validation[i] \notin {"pending", "threw"}

\* The evaluators the validation phase selected.
Chosen == {i \in 1..Len(evaluators) : ev.validation[i] = "true"}

\* C28: when the validation phase selects no evaluator, evaluate returns the
\* empty list, composeState is not called and the cache entry of the message
\* is as it was, no handler is invoked and no audit entry is written.
C28_EvaluatorFastPath ==
    (ValidationDone /\ Chosen = {}) =>
        /\ ev.pc = "returned"
        /\ ev.result = <<>>
        /\ nCalls = 0
        /\ ~lastCall.returned
        /\ stateCache["m1"] = NoEntry
        /\ \A i \in 1..Len(evaluators) : ev.handlers[i] = "none"
        /\ auditLog = <<>>

\* Validation predicates ran and all returned false, on a runtime whose
\* providers would have been fetched.
C28_Witness ==
    /\ ValidationDone
    /\ Chosen = {}
    /\ \E i \in 1..Len(evaluators) : ev.validation[i] = "false"
    /\ providers # <<>>

\* The audit entries of the evaluator registered at index i.
EvaluatorEntries(i) ==
    {k \in 1..Len(auditLog) :
        auditLog[k] = [type |-> "evaluator", name |-> evaluators[i].name,
                       messageId |-> "m1"]}

\* C29: when the validation phase selected an evaluator, the state is
\* recomposed once, before any handler starts; every selected handler is
\* invoked with that state; an evaluator has an audit entry only once its
\* handler has completed; and when evaluate has completed, every selected
\* handler has completed and has exactly one audit entry.
C29_EvaluatorExecution ==
    (ValidationDone /\ Chosen # {}) =>
        /\ nCalls = (IF ev.pc = "composing" THEN 0 ELSE 1)
        /\ \A i \in 1..Len(evaluators) :
            /\ ev.pc = "composing" => ev.handlers[i] = "none"
            /\ ev.pc # "composing" =>
                /\ (ev.handlers[i] # "none") = (i \in Chosen)
                /\ i \in Chosen => ev.given[i] = lastCall.state
            /\ Cardinality(EvaluatorEntries(i))
                    = (IF ev.handlers[i] = "done" THEN 1 ELSE 0)
            /\ (ev.pc \in {"returned", "rejected"} /\ i \in Chosen) =>
                    ev.handlers[i] = "done"

-----------------------------------------------------------------------------
(* Properties of the provider fan-out and of the snapshots of composeState. *)

\* C24: every provider invoked within one composeState call receives the
\* cache entry of the message as it was when the call started, the empty
\* snapshot if there was none, whatever the other providers of the call
\* return and whatever was cached since.
C24_ProviderIsolation ==
    \A c \in 1..MaxCalls :
        calls[c].pc = "fetching" =>
            /\ Len(calls[c].inputs) = Len(calls[c].toGet)
            /\ \A i \in 1..Len(calls[c].toGet) :
                calls[c].inputs[i] = (IF calls[c].startEntry = NoEntry
                                      THEN EmptyState
                                      ELSE calls[c].startEntry)

\* Two providers that return text and values are being fetched by a call,
\* and the cache entry of the message has changed since the call started.
C24_Witness ==
    \E c \in 1..MaxCalls :
        /\ calls[c].pc = "fetching"
        /\ stateCache[calls[c].msg] # calls[c].startEntry
        /\ \E i, j \in 1..Len(calls[c].toGet) :
            /\ i < j
            /\ calls[c].toGet[i].hasText /\ calls[c].toGet[i].text # ""
            /\ calls[c].toGet[j].hasValues

\* values.providers is the text, and data.providers has exactly one entry for
\* each of the names.
Snapshot(state, names) ==
    /\ "providers" \in DOMAIN state.values
    /\ state.values["providers"] = state.text
    /\ KeysOf(state.providers) = names
    /\ \A i, j \in 1..Len(state.providers) :
            state.providers[i].name = state.providers[j].name => i = j

\* C30: in the state composeState returned and in every cache entry,
\* values.providers equals text and data.providers holds one entry per
\* provider name fetched so far for the message.
C30_StateSnapshot ==
    /\ lastCall.returned =>
            Snapshot(lastCall.state, lastCall.fetched[lastCall.msg])
    /\ \A m \in Messages :
            stateCache[m] # NoEntry =>
                Snapshot(stateCache[m], lastCall.fetched[m])

\* The provider names held in the data.providers of a cache entry.
CachedNames(entry) == IF entry = NoEntry THEN {} ELSE KeysOf(entry.providers)

\* No step takes a provider name out of the cache entry of a message.
NeverShrinks ==
    \A m \in Messages :
        /\ stateCache[m] # NoEntry => stateCache'[m] # NoEntry
        /\ CachedNames(stateCache[m]) \subseteq CachedNames(stateCache'[m])

\* C32: for one message the set of provider names in the cached
\* data.providers never shrinks: what a completed composeState call cached
\* is still cached after every composeState call that completes later,
\* calls that overlap in time included.
C32_NoLostCacheUpdates == [][NeverShrinks]_vars

-----------------------------------------------------------------------------
(* Properties of the settings.                                              *)

\* C21: getSetting(key) returns the value of the first source, in the order
\* agent secrets, agent settings, settings.secrets, process-wide settings,
\* that defines the key; "true" and "false" are returned as booleans and any
\* other falsy value as null.
C21_FirstDefiningSource ==
    setting.called =>
        setting.result = getSettingFirstDefined(setting.from, setting.key)

-----------------------------------------------------------------------------
(* Properties of initialize.                                                *)

\* The steps of initialize in the order of the source; the registerPlugin
\* calls and ensureRoomExists are awaited together.
StepRank(step) ==
    CASE step = "init" -> 1
      [] step = "ensureAgentExists" -> 2
      [] step = "getEntityById" -> 3
      [] step = "createEntity" -> 4
      [] step = "handlePluginImporting" -> 5
      [] step = "registerPlugin" -> 6
      [] step = "ensureRoomExists" -> 6
      [] step = "getParticipantsForRoom" -> 7
      [] step = "addParticipant" -> 8
      [] step = "processCharacterKnowledge" -> 9
      [] step = "ensureEmbeddingDimension" -> 10
      [] OTHER -> 11

Started(step) == \E i \in 1..Len(boot.trace) : boot.trace[i] = step

\* A registerPlugin call made by initialize rejected.
PluginFailed ==
    \E l \in 1..Len(boot.launched) : installs[boot.launched[l]].pc = "rejected"

RoomFailed == boot.room = "failed"

KnowledgeFailed == kn.pc = "rejected"

\* useModel rejected, or resolved with an embedding without length.
EmbeddingFailed ==
    \/ um.pc = "rejected"
    \/ um.pc = "returned" /\ EmbeddingLength(um.response) = 0

\* No step from getParticipantsForRoom on was started; no knowledge was
\* ingested.
NothingAfterRegistration ==
    /\ \A i \in 1..Len(boot.trace) :
            boot.trace[i] = "rejected" \/ StepRank(boot.trace[i]) <= 6
    /\ kn = IdleKnowledge
    /\ store = <<>>
    /\ um = IdleUseModel

\* What holds in every state of an initialize call.
StartupFailureFatal ==
    /\ \A i \in 1..Len(boot.trace) :
        /\ boot.trace[i] = "rejected" => i = Len(boot.trace)
        /\ \A j \in 1..(i - 1) : StepRank(boot.trace[j]) <= StepRank(boot.trace[i])
    /\ (boot.pc = "rejected") = Started("rejected")
    /\ boot.pc = "rejected" =>
        /\ Started(boot.error)
        /\ \A i \in 1..(Len(boot.trace) - 1) :
                StepRank(boot.trace[i]) <= StepRank(boot.error)
        /\ boot.error = "registerPlugin" => PluginFailed
        /\ boot.error = "ensureRoomExists" => RoomFailed
        /\ boot.error = "processCharacterKnowledge" => KnowledgeFailed
    /\ (PluginFailed \/ RoomFailed) =>
        /\ boot.pc \in {"registering", "rejected"}
        /\ NothingAfterRegistration
    /\ KnowledgeFailed =>
        /\ boot.pc \in {"knowledge", "rejected"}
        /\ ~Started("ensureEmbeddingDimension")
        /\ um = IdleUseModel
    /\ EmbeddingFailed => boot.pc \in {"embedding", "rejected"}

\* C22: a step of initialize that fails is fatal: no later step is started
\* (knowledge is never ingested after a plugin registration or the room
\* creation failed), initialize never resolves, and it rejects with the
\* error of a step that failed.
C22_StartupFailureFatal ==
    /\ []StartupFailureFatal
    /\ (PluginFailed \/ RoomFailed \/ KnowledgeFailed \/ EmbeddingFailed)
            ~> (boot.pc = "rejected")

\* A plugin registration failed on a runtime whose character has knowledge:
\* initialize rejected while ensureRoomExists was still running.
C22_Witness ==
    /\ boot.pc = "rejected"
    /\ boot.error = "registerPlugin"
    /\ PluginFailed
    /\ boot.room = "getRoom"
    /\ HasKnowledge(character)

-----------------------------------------------------------------------------
(* Properties of ingestion after a failure.                                 *)

\* The document of a text is stored with a fragment at each of the
\* positions 0..n-1 of its chunks.
StoredComplete(text) ==
    /\ MemoryExists(store, "documents", createUniqueUuid(text))
    /\ \A k \in 0..(Len(splitChunks(text)) - 1) :
        \E w \in 1..Len(store) :
            /\ store[w].table = "knowledge"
            /\ store[w].documentId = createUniqueUuid(text)
            /\ store[w].position = k
            /\ store[w].text = splitChunks(text)[k + 1]

\* C34: once processCharacterKnowledge has gone through an item without
\* error (it added it, or found it and skipped it), possibly after earlier
\* calls that failed part-way through addKnowledge, the document of the item
\* is stored together with all of its fragments at positions 0..n-1.
C34_CompleteIngestion ==
    \A v \in 1..Len(kn.visits) :
        kn.visits[v].outcome \in {"added", "skipped"} =>
            StoredComplete(kn.visits[v].text)

-----------------------------------------------------------------------------
(* Properties of getKnowledge after addKnowledge.                           *)

\* The document ids of the fragments the similarity search matched.
MatchedDocuments == {gk.fragments[f].documentId : f \in 1..Len(gk.fragments)}

\* C33: after addKnowledge stored a document and its fragments, a
\* getKnowledge query whose similarity search matches one of the fragments
\* returns the id and content of that document, and each document at most
\* once.
C33_KnowledgeRoundTrip ==
    (gk.pc = "returned" /\ kn.pc = "resolved") =>
        /\ \A d \in MatchedDocuments :
            \E x \in 1..Len(gk.result) :
                /\ gk.result[x].id = d
                /\ \E w \in 1..Len(store) :
                    /\ store[w].table = "documents" /\ store[w].id = d
                    /\ gk.result[x].text = store[w].text
        /\ \A x, y \in 1..Len(gk.result) :
            gk.result[x].id = gk.result[y].id => x = y

-----------------------------------------------------------------------------
(* Properties of a registerPlugin call that fails.                          *)

\* The registerService calls of an install that were launched and have
\* failed.
FailedStarts(install) ==
    {r \in {install.launched[l] : l \in 1..Len(install.launched)} :
        regs[r].pc = "failed"}

\* A step of the call has thrown and the call is past the await of it.
StepThrew(install) ==
    \/ install.pc \notin {"services"} /\ FailedStarts(install) # {}
    \/ /\ install.pc # "init"
       /\ install.initCalls = 1 /\ ~install.initReturned

\* The error of a rejected call is that of a step of the call that threw.
ErrorOfStep(install) ==
    \/ /\ install.error.step = "service"
       /\ install.error.of \in FailedStarts(install)
       /\ install.initCalls = 0
    \/ /\ install.error.step = "init"
       /\ install.initCalls = 1 /\ ~install.initReturned

\* What the steps before the await of the services registered is in effect.
EarlierRegistrations(install) ==
    /\ \E i \in 1..Len(plugins) : plugins[i].name = install.plugin.name
    /\ install.plugin.hasAdapter => adapter # NoAdapter
    /\ ComponentsRegistered(install)

\* The registry holds a service for the type of every service of the call
\* that has started (the instance of this call, or the one an overlapping
\* call stored over it).
StartedServicesKept(install) ==
    \A l \in 1..Len(install.launched) :
        LET r == install.launched[l]
        IN regs[r].pc = "registered" =>
            MapHas(services, regs[r].service.serviceType)

\* The step that rejects a call removes nothing that is registered.
RejectionUndoesNothing ==
    (\E n \in 1..Len(installs) :
        installs[n].pc # "rejected" /\ installs'[n].pc = "rejected")
    => UNCHANGED <<plugins, adapter, actions, evaluators, providers, models,
                   routes, events, services, regs>>

\* What holds of every registerPlugin call once it has failed.
RejectedKeepsRegistrations ==
    \A n \in 1..Len(installs) :
        /\ StepThrew(installs[n]) <=> installs[n].pc = "rejected"
        /\ installs[n].pc # "rejected" => installs[n].error = NotThrown
        /\ installs[n].pc = "rejected" =>
            /\ ErrorOfStep(installs[n])
            /\ EarlierRegistrations(installs[n])
            /\ StartedServicesKept(installs[n])

\* C31: if a service start or init of a registerPlugin call throws, the call
\* rejects with that error, and the plugin-list entry, the adapter binding,
\* the actions, evaluators, providers, model handlers, routes, event
\* handlers and the services already started of that call stay registered.
C31_NotTransactional ==
    []RejectedKeepsRegistrations /\ [][RejectionUndoesNothing]_vars

\* The second service of plugin A failed to start after the first had
\* started: the call is rejected, the first service and the components of
\* the plugin are registered; and a call whose init threw is rejected.
C31_Witness ==
    \E n, o \in 1..Len(installs) :
        /\ installs[n].plugin = PlugA
        /\ installs[n].pc = "rejected"
        /\ installs[n].error = [step |-> "service", of |-> installs[n].launched[2]]
        /\ regs[installs[n].launched[1]].pc = "registered"
        /\ MapHas(services, "twitter")
        /\ actions # <<>> /\ routes # <<>> /\ adapter = "P"
        /\ installs[o].pc = "rejected"
        /\ installs[o].error.step = "init"

-----------------------------------------------------------------------------
(* Properties of the Twitter service.                                       *)

\* The instances constructed for a (clientId, agentId) pair whose loops
\* were started.
ClientsStartedFor(clientId, agentId) ==
    {i \in 1..Len(twitter.made) :
        /\ twitter.made[i].clientId = clientId
        /\ twitter.made[i].agentId = agentId
        /\ twitter.made[i].started # <<>>}

\* The instances createClient returned for a pair.
ClientsReturnedFor(clientId, agentId) ==
    {twitter.creates[c].client : c \in
        {c \in 1..Len(twitter.creates) :
            /\ twitter.creates[c].clientId = clientId
            /\ twitter.creates[c].agentId = agentId
            /\ twitter.creates[c].pc = "returned"}}

\* C36: for any (clientId, agentId) pair at most one TwitterClientInstance
\* is created, initialized and started, every createClient call for the
\* pair that returns, later or overlapping, returns that same instance, and
\* no post or interaction loop is started twice.
C36_OneClientPerKey ==
    \A clientId \in ClientIds, runtime \in Runtimes :
        /\ Cardinality(ClientsStartedFor(clientId, runtime.agentId)) <= 1
        /\ Cardinality(ClientsReturnedFor(clientId, runtime.agentId)) <= 1
        /\ \A i \in ClientsStartedFor(clientId, runtime.agentId) :
            twitter.made[i].started = StartedLoops(twitter.made[i])

\* The same with createClient calls that do not overlap.
OneClientPerKeyInSequence ==
    (\A c \in 1..Len(twitter.creates) : twitter.creates[c].alone)
    => C36_OneClientPerKey

\* The instances registered when stop() was called.
RegisteredAtStop ==
    {twitter.atStop[i].value : i \in 1..Len(twitter.atStop)}

\* No registered client has its stop requested more than once.
StoppedAtMostOnce ==
    \A i \in RegisteredAtStop : twitter.made[i].stops <= 1

\* stop() has resolved, every client registered at the call was stopped
\* once and none is registered.
StopCompleted ==
    /\ twitter.stop = "resolved"
    /\ twitter.clients = <<>>
    /\ \A i \in RegisteredAtStop : twitter.made[i].stops = 1

\* C35: with any number of registered clients, a call of stop() on the
\* singleton eventually completes, each client is stopped once, and no
\* client remains registered afterwards.
C35_StopTerminates ==
    /\ (twitter.stop = "called") ~> StopCompleted
    /\ []StoppedAtMostOnce

\* Without registered clients stop() completes.
StopCompletesWithoutClients ==
    (twitter.stop = "called" /\ twitter.atStop = <<>>) ~> StopCompleted

====
